---- MODULE Spec2Model ----
(***************************************************************************)
(* Token ledger (src/lib/tokens.ts) and the settlement protocol of the     *)
(* game components (Crash, Mines, Dice, Plinko).                           *)
(*                                                                         *)
(* Money is counted in cents (1 token = 100), multipliers in 1/10000.      *)
(* The store is the row store the ledger client talks to: one statement    *)
(* (select, insert, update) is one atomic step and does what the client    *)
(* asked, nothing more; the client's awaits are the points where other     *)
(* handlers may run.  A handler invocation works on the component state    *)
(* and the tokenBalance prop of the render it was created in.  A failed    *)
(* request and the catch block that observes it are one step.              *)
(***************************************************************************)
EXTENDS Integers, Sequences, FiniteSets, Bags, TLC

\* ---------------------------------------------------------------- bounds
MaxCalls == 3
MaxPending == 2
MaxFaults == 1
MaxTicks == 1
MaxHand == 4

\* ------------------------------------------------------- input alphabets
InitBalance == 10000
SpendAmounts == {6000}
WinAmounts == {5000}
DirectArgs == {0 - 100, 7000}
SolAmounts == {0, 500}
Bets == {2000}
MinesConfigs ==
  {<<2000, 10, 15, 0>>, <<2000, 10, 15, 11000>>, <<2000, 2, 22, 0>>,
   <<0, 10, 15, 0>>, <<0, 10, 15, 11000>>, <<0, 2, 22, 0>>}
AutoTargets == {0, 10020}
CrashPoints == {10000, 990000}
DiceTargets == {50}
DiceRolls == {30, 70}
BjBets == {2000}
Decks ==
  {<<"A", "9", "K", "7", "5", "10">>,
   <<"5", "9", "6", "7", "4", "K", "3">>}
Users == {"u1", "none"}
PlinkoBuckets == {4, 8}
PlinkoTargets == {4}

\* ------------------------------------------------------------ constants
MScale == 10000
BASE_MULTIPLIER == 10024
MEDIUM_4 == 13000
MEDIUM_8 == 2000
GRID_SIZE == 5
MIN_MINES == 1
MAX_MINES == 24
MIN_GEMS == 1
MAX_GEMS == 25
AUTO_REVEAL_THRESHOLD == 2

\* -------------------------------------------------------------- helpers
Max(a, b) == IF a >= b THEN a ELSE b
Min(a, b) == IF a <= b THEN a ELSE b

\* Number(x.toFixed(2)) of the quotient n / d, in cents
RoundDiv(n, d) ==
  IF n >= 0 THEN (2 * n + d) \div (2 * d) ELSE 0 - ((2 * (0 - n) + d) \div (2 * d))

VARIABLES
  balance,        \* profiles.token_balance of the account
  log,            \* token_transactions rows of the account, oldest first
  cachedBalance,  \* tokens.ts module cache
  tokenBalance,   \* App state handed to the game components
  tasks,          \* async handler invocations (a bag of records)
  faults,         \* store requests that have failed so far
  game,           \* the component that is mounted ("ledger": bare API calls)
  user,           \* the signed-in user supabase.auth.getUser() returns, or "none"
  call,           \* a function of the components applied on its own: name, arguments, result
  blackjack,      \* BlackjackGame component state
  crash,          \* Game (Crash) component state
  mines,          \* MinesGame component state
  dice,           \* DiceGame component state
  plinko,         \* PlinkoGame component state
  gh              \* bookkeeping for the properties

comps == <<game, user, call, blackjack, crash, mines, dice, plinko>>

ui == <<tokenBalance, game, user, call, blackjack, crash, mines, dice, plinko>>

vars == <<balance, log, cachedBalance, tokenBalance, tasks, faults, game, user, call, blackjack, crash, mines, dice, plinko, gh>>

\* no function is being applied on its own
NoCall == [fn |-> "none", args |-> <<>>, out |-> <<>>]

NoTask ==
  [kind |-> "none", pc |-> "idle", amt |-> 0, isWin |-> FALSE, cur |-> 0,
   arg |-> 0, err |-> "", ins |-> 0, wr |-> 0, game |-> "none",
   tb |-> 0, bet |-> 0, mult |-> 0, round |-> 0,
   rc |-> 0, hg |-> 0, hm |-> 0, he |-> 0, deck |-> <<>>]

InFlight(t) == t.pc \notin {"idle", "done", "failed"}

Running == BagToSet(tasks)

\* the invocations in flight: ended bare ledger calls stay in the bag
Pending ==
  BagCardinality(tasks)
    - BagCardinality([t \in {x \in Running : ~InFlight(x)} |-> CopiesIn(t, tasks)])

Quiet == Pending = 0

\* the invocation budget of a behaviour and of a moment
HasFree == gh.calls < MaxCalls /\ Pending < MaxPending

Put(t) == tasks (+) SetToBag({t})

Drop(t) == tasks (-) SetToBag({t})

Swap(t, u) == (tasks (-) SetToBag({t})) (+) SetToBag({u})

LedgerKinds == {"rgt", "update", "buy"}

CanFail == faults < MaxFaults

\* startGame catch of Game (part_005 277-281)
CatchCrash(t) == IF t.kind = "crashStart" THEN [crash EXCEPT !.isFlying = FALSE] ELSE crash

CatchDice_KeepsRolling(t) ==
  IF t.kind = "diceRoll" THEN [dice EXCEPT !.isRolling = TRUE] ELSE dice

\* rollDice catch (part_003 161-165); the interval callback has none
CatchDice(t) == IF t.kind = "diceRoll" THEN [dice EXCEPT !.isRolling = FALSE] ELSE dice

\* updateBall's settlement catch (PlinkoGame.tsx 325-329)
CatchPlinko(t) ==
  IF t.kind = "plinkoSettle" THEN [plinko EXCEPT !.isDropping = FALSE, !.ball = "none"]
  ELSE plinko

WinPc_NoCredit == "rgt_ret"

\* a settlement that won goes on with "await recordGameTransaction(user.id,
\* game, profit, true)" (part_005 301, part_001 350, part_003 132, part_006 247)
WinPc == "rgt_read"

\* a request of invocation t (now u) failed with error e: a bare ledger
\* call ends with the error, a game handler runs its catch block
FailAs(t, u, e) ==
  /\ tasks' = IF t.kind \in LedgerKinds
                THEN Swap(t, [u EXCEPT !.pc = "failed", !.err = e])
                ELSE IF t.kind = "plinkoSettle"
                  THEN Swap(t, [t EXCEPT !.pc = "restore"])
                  ELSE Drop(t)
  /\ crash' = CatchCrash(t)
  /\ dice' = CatchDice(t)
  /\ plinko' = CatchPlinko(t)
  /\ UNCHANGED <<tokenBalance, game, user, call, blackjack, mines>>

Fail(t, e) == FailAs(t, t, e)

\* the ledger call returned: a bare call ends, a game handler continues
Return(t) ==
  IF t.kind \in LedgerKinds THEN Drop(t) ELSE Swap(t, [t EXCEPT !.pc = "rgt_ret"])

\* ------------------------------------------------------------ tokens.ts
RoundedBalance_NoClamp(newBalance) == newBalance

\* updateTokenBalance: Number(Math.max(0, newBalance).toFixed(2))
RoundedBalance(newBalance) == Max(0, newBalance)

\* "cachedBalance = { value: ..., timestamp: Date.now() }"; fresh while
\* Date.now() - timestamp < CACHE_DURATION (tokens.ts 5-6, 11)
Cache(v) == [valid |-> TRUE, value |-> v, fresh |-> TRUE]

NoCache == [valid |-> FALSE, value |-> 0, fresh |-> FALSE]

CurrentBalance_Cached ==
  IF cachedBalance.valid /\ cachedBalance.fresh THEN cachedBalance.value ELSE balance

\* recordGameTransaction: "const currentBalance = Number(profile?.token_balance
\* || 0)" of the row selected from profiles (tokens.ts 86-96)
CurrentBalance == balance

Insufficient_Unchecked(isWin, amount, currentBalance) == FALSE

\* recordGameTransaction: "For spending, verify sufficient balance"
Insufficient(isWin, amount, currentBalance) == ~isWin /\ amount > currentBalance

\* recordGameTransaction: the row inserted into token_transactions
TxRecord(t) ==
  [type |-> IF t.isWin THEN "game_win" ELSE "game_spend",
   amount |-> t.amt, game |-> t.game]

\* recordGameTransaction: newBalance
NewBalance(t) == IF t.isWin THEN t.cur + t.amt ELSE t.cur - t.amt

\* select token_balance (tokens.ts 86-101)
RGTRead(t) ==
  /\ t.pc = "rgt_read"
  /\ \/ /\ IF Insufficient(t.isWin, t.amt, CurrentBalance)
             THEN FailAs(t, [t EXCEPT !.cur = CurrentBalance], "Insufficient token balance")
             ELSE /\ tasks' = Swap(t, [t EXCEPT !.cur = CurrentBalance, !.pc = "rgt_insert"])
                  /\ UNCHANGED ui
        /\ UNCHANGED faults
     \/ /\ CanFail
        /\ faults' = faults + 1
        /\ Fail(t, "Failed to get current balance")
  /\ UNCHANGED <<balance, log, cachedBalance, gh>>

\* insert into token_transactions (tokens.ts 103-116)
RGTInsert(t) ==
  /\ t.pc = "rgt_insert"
  /\ \/ /\ log' = Append(log, TxRecord(t))
        /\ tasks' = Swap(t, [t EXCEPT !.ins = t.ins + 1, !.pc = "rgt_write"])
        /\ gh' = [gh EXCEPT !.roundWins =
                     gh.roundWins + (IF t.isWin /\ t.round = gh.round THEN 1 ELSE 0)]
        /\ UNCHANGED <<faults, ui>>
     \/ /\ CanFail
        /\ faults' = faults + 1
        /\ Fail(t, "Failed to record game transaction")
        /\ UNCHANGED <<log, gh>>
  /\ UNCHANGED <<balance, cachedBalance>>

\* updateTokenBalance(userId, newBalance) and the cache update (tokens.ts 118-129)
RGTWrite(t) ==
  /\ t.pc = "rgt_write"
  /\ \/ /\ balance' = RoundedBalance(NewBalance(t))
        /\ cachedBalance' = Cache(NewBalance(t))
        /\ tasks' = Return(t)
        /\ gh' = [gh EXCEPT !.net = gh.net + (IF t.isWin THEN t.amt ELSE 0 - t.amt)]
        /\ UNCHANGED <<faults, ui>>
     \/ /\ CanFail
        /\ faults' = faults + 1
        /\ Fail(t, "Failed to update token balance")
        /\ UNCHANGED <<balance, cachedBalance, gh>>
  /\ UNCHANGED log

\* a direct updateTokenBalance(userId, newBalance) call (tokens.ts 45-76)
UpdateStep(t) ==
  /\ t.kind = "update"
  /\ t.pc = "upd"
  /\ \/ /\ balance' = RoundedBalance(t.arg)
        /\ cachedBalance' = Cache(RoundedBalance(t.arg))
        /\ tasks' = Swap(t, [t EXCEPT !.wr = t.wr + 1, !.pc = "done"])
        /\ UNCHANGED <<faults, ui>>
     \/ /\ CanFail
        /\ faults' = faults + 1
        /\ Fail(t, "Failed to update token balance")
        /\ UNCHANGED <<balance, cachedBalance>>
  /\ UNCHANGED <<log, gh>>

\* ------------------------------------------------- buyTokens (tokens.ts)
\* "Convert SOL to tokens (1 SOL = 10 tokens)"; solAmount in 1/100 SOL
TokenAmount(solAmount) == solAmount * 10

PurchaseRecord(t) == [type |-> "purchase", amount |-> t.amt, game |-> "none"]

\* select token_balance before the transaction (tokens.ts 151-162)
BuyRead(t) ==
  /\ t.pc = "buy_read"
  /\ \/ /\ tasks' = Swap(t, [t EXCEPT !.cur = balance, !.pc = "buy_pay"])
        /\ UNCHANGED <<faults, ui>>
     \/ /\ CanFail
        /\ faults' = faults + 1
        /\ Fail(t, "Failed to get current balance")
  /\ UNCHANGED <<balance, log, cachedBalance, gh>>

\* purchaseTokens(solAmount): paid, not paid, or rejected in the wallet; every
\* error purchaseTokens throws is a new Error without a code (part_000
\* 156-176), so a rejection too goes through the restore of tokens.ts 203-210
BuyPay(t) ==
  /\ t.pc = "buy_pay"
  /\ \/ /\ tasks' = Swap(t, [t EXCEPT !.pc = "buy_insert"])
        /\ UNCHANGED ui
     \/ /\ tasks' = Swap(t, [t EXCEPT !.pc = "buy_restore", !.err = "Transaction failed. Please try again."])
        /\ UNCHANGED ui
     \/ /\ tasks' = Swap(t, [t EXCEPT !.pc = "buy_restore", !.err = "Transaction was rejected."])
        /\ UNCHANGED ui
  /\ UNCHANGED <<balance, log, cachedBalance, gh, faults>>

\* insert the purchase row (tokens.ts 171-184)
BuyInsert(t) ==
  /\ t.pc = "buy_insert"
  /\ \/ /\ log' = Append(log, PurchaseRecord(t))
        /\ tasks' = Swap(t, [t EXCEPT !.ins = t.ins + 1, !.pc = "buy_write"])
        /\ UNCHANGED faults
     \/ /\ CanFail
        /\ faults' = faults + 1
        /\ tasks' = Swap(t, [t EXCEPT !.pc = "buy_restore", !.err = "Failed to record transaction"])
        /\ UNCHANGED log
  /\ UNCHANGED <<balance, cachedBalance, ui, gh>>

\* updateTokenBalance(user.id, currentBalance + tokenAmount) (tokens.ts 186-196)
BuyWrite(t) ==
  /\ t.pc = "buy_write"
  /\ \/ /\ balance' = RoundedBalance(t.cur + t.amt)
        /\ cachedBalance' = Cache(t.cur + t.amt)
        /\ tasks' = Drop(t)
        /\ gh' = [gh EXCEPT !.net = gh.net + t.amt]
        /\ UNCHANGED faults
     \/ /\ CanFail
        /\ faults' = faults + 1
        /\ tasks' = Swap(t, [t EXCEPT !.pc = "buy_restore", !.err = "Failed to update token balance"])
        /\ UNCHANGED <<balance, cachedBalance, gh>>
  /\ UNCHANGED <<log, ui>>

\* "For other errors, try to restore the balance" (tokens.ts 203-210)
BuyRestore(t) ==
  /\ t.pc = "buy_restore"
  /\ \/ /\ balance' = RoundedBalance(t.cur)
        /\ cachedBalance' = Cache(RoundedBalance(t.cur))
        /\ tasks' = Swap(t, [t EXCEPT !.wr = t.wr + 1, !.pc = "failed"])
        /\ UNCHANGED faults
     \/ /\ CanFail
        /\ faults' = faults + 1
        /\ tasks' = Swap(t, [t EXCEPT !.pc = "failed"])
        /\ UNCHANGED <<balance, cachedBalance>>
  /\ UNCHANGED <<log, ui, gh>>

\* --------------------------------------------- the ledger API, called bare
CallRecordGameTransaction(amount, isWin) ==
  /\ game = "ledger"
  /\ HasFree
  /\ tasks' = Put([NoTask EXCEPT !.kind = "rgt", !.pc = "rgt_read", !.amt = amount,
                                 !.isWin = isWin, !.game = "crash"])
  /\ gh' = [gh EXCEPT !.calls = gh.calls + 1]
  /\ UNCHANGED <<balance, log, cachedBalance, ui, faults>>

CallUpdateTokenBalance(newBalance) ==
  /\ game = "ledger"
  /\ HasFree
  /\ tasks' = Put([NoTask EXCEPT !.kind = "update", !.pc = "upd", !.arg = newBalance])
  /\ gh' = [gh EXCEPT !.calls = gh.calls + 1, !.direct = gh.direct + 1]
  /\ UNCHANGED <<balance, log, cachedBalance, ui, faults>>

\* buyTokens up to its first store request (tokens.ts 136-149)
CallBuyTokens(solAmount) ==
  /\ game = "ledger"
  /\ HasFree
  /\ tasks' = Put(IF solAmount <= 0
          THEN [NoTask EXCEPT !.kind = "buy", !.pc = "failed", !.err = "Please enter a valid amount"]
          ELSE [NoTask EXCEPT !.kind = "buy", !.pc = "buy_read", !.amt = TokenAmount(solAmount)])
  /\ gh' = [gh EXCEPT !.calls = gh.calls + 1]
  /\ UNCHANGED <<balance, log, cachedBalance, ui, faults>>

LedgerStep ==
  \E t \in Running :
    \/ RGTRead(t)
    \/ RGTInsert(t)
    \/ RGTWrite(t)
    \/ UpdateStep(t)
    \/ BuyRead(t)
    \/ BuyPay(t)
    \/ BuyInsert(t)
    \/ BuyWrite(t)
    \/ BuyRestore(t)

\* MinesGame state (part_001 50-63); the grid is kept as the numbers of
\* hidden gem, mine and empty cells; autoStopAt 0 stands for autoMode off
MinesState(bet, mineCount, gemCount, auto) ==
  [betAmount |-> bet, mineCount |-> mineCount, gemCount |-> gemCount,
   isPlaying |-> FALSE, revealedCount |-> 0, currentMultiplier |-> MScale,
   lastWin |-> 0, autoMode |-> auto > 0, autoStopAt |-> auto,
   hiddenGems |-> 0, hiddenMines |-> 0, hiddenEmpty |-> 0]

MinesInit == MinesState(2000, 10, 15, 0)

\* DiceGame state (part_003 31-38)
DiceInit ==
  [betAmount |-> 2000, targetNumber |-> 50, multiplier |-> 2 * MScale,
   isRolling |-> FALSE, lastWin |-> 0]

\* PlinkoGame state (PlinkoGame.tsx 121-129): the ball is absent, falling or
\* at the buckets; effTb is the tokenBalance of the render that set the ball,
\* targetBucket the bucket its path was computed for
PlinkoInit ==
  [betAmount |-> 2000, risk |-> "Medium", isDropping |-> FALSE, lastWin |-> 0,
   ball |-> "none", effTb |-> 0, targetBucket |-> 0]

\* ---------------------------------------------- BlackjackGame, part_006
VALUES == <<"A", "2", "3", "4", "5", "6", "7", "8", "9", "10", "J", "Q", "K">>

\* createDeck: 'A' counts 11, 'K', 'Q', 'J' count 10, the rest parseInt(value)
\* (part_006 46)
numericValue(value) ==
  LET i == CHOOSE k \in 1..Len(VALUES) : VALUES[k] = value
  IN IF i = 1 THEN 11 ELSE IF i > 10 THEN 10 ELSE i

RECURSIVE HandValue(_)
HandValue(hand) ==
  IF hand = <<>> THEN 0 ELSE numericValue(Head(hand)) + HandValue(Tail(hand))

RECURSIVE AceCount(_)
AceCount(hand) ==
  IF hand = <<>> THEN 0 ELSE (IF Head(hand) = "A" THEN 1 ELSE 0) + AceCount(Tail(hand))

\* "while (score > 21 && aces > 0)" (part_006 72-75)
RECURSIVE SoftenAces(_, _)
SoftenAces(score, aces) ==
  IF score > 21 /\ aces > 0 THEN SoftenAces(score - 10, aces - 1) ELSE score

calculateScore_AcesHigh(hand) == HandValue(hand)

\* calculateScore (part_006 61-78)
calculateScore(hand) == SoftenAces(HandValue(hand), AceCount(hand))

\* BlackjackGame state (part_006 82-91); the deck is kept in dealing order,
\* its head being the card deck.pop() returns
BlackjackState(deck, bet) ==
  [playerHand |-> <<>>, dealerHand |-> <<>>, deck |-> deck, betAmount |-> bet,
   gamePhase |-> "betting", playerScore |-> 0, dealerScore |-> 0, lastWin |-> 0]

BlackjackInit == BlackjackState(<<"A", "9", "K", "7", "5", "10">>, 2000)

GhInit ==
  [calls |-> 0, net |-> 0, direct |-> 0,
   round |-> 0, balBefore |-> 0, logBefore |-> 0, clean |-> FALSE,
   cashMult |-> 0, roundWins |-> 0, roundSettled |-> 0, noop |-> FALSE,
   rejected |-> FALSE, natural |-> FALSE]

\* a start click opens a round: the round is clean while it consists of this
\* start, taken with nothing in flight, and manual cash-outs taken one at a
\* time
GhStart ==
  [gh EXCEPT !.calls = gh.calls + 1, !.round = gh.round + 1,
             !.balBefore = balance, !.logBefore = Len(log),
             !.clean = (Pending = 0), !.cashMult = 0,
             !.roundWins = 0, !.roundSettled = 0, !.noop = FALSE,
             !.rejected = FALSE, !.natural = FALSE]

\* a start request returned early, at its validation or for the missing user
GhRejected == [gh EXCEPT !.rejected = TRUE]

SignedIn_Always == TRUE

\* "const { data: { user } } = await supabase.auth.getUser(); if (!user) {
\* toast.error('Please sign in to play'); return; }" (part_005 251-255)
SignedIn == user # "none"

\* a settlement of round r at multiplier m went through
GhSettled(r, m) ==
  IF r = gh.round
    THEN [gh EXCEPT !.roundSettled = gh.roundSettled + 1, !.cashMult = m]
    ELSE gh

\* Number((betAmount * multiplier).toFixed(2))
Winnings(bet, mult) == RoundDiv(bet * mult, MScale)

\* ============================================= Game (Crash), part_005
CrashState(bet, auto) ==
  [multiplier |-> MScale, isFlying |-> FALSE, crashed |-> FALSE,
   betAmount |-> bet, hasBet |-> FALSE, autoCashoutAt |-> auto,
   lastWin |-> 0, cashedOut |-> FALSE,
   crashPoint |-> MScale, ticks |-> 0, effTb |-> 0]

CrashInit == CrashState(2000, 0)

CrashStartGuard ==
  ~(crash.betAmount <= 0 \/ crash.betAmount > tokenBalance \/ crash.isFlying)

\* startGame up to its first store request (part_005 245-258), or its
\* early return; the button is rendered while isFlying is false (450-452)
CrashStartGame ==
  /\ game = "crash"
  /\ ~crash.isFlying
  /\ IF CrashStartGuard /\ SignedIn
       THEN /\ HasFree
            /\ tasks' = Put([NoTask EXCEPT !.kind = "crashStart", !.pc = "rgt_read",
                                           !.amt = crash.betAmount, !.isWin = FALSE,
                                           !.game = "crash", !.tb = tokenBalance,
                                           !.bet = crash.betAmount, !.round = gh.round + 1])
            /\ gh' = GhStart
       ELSE /\ tasks' = tasks
            /\ gh' = GhRejected
  /\ UNCHANGED <<balance, log, cachedBalance, ui, faults>>

\* startGame after the spend returned (part_005 260-276); the tick effect
\* (220-243) is set up by the render that shows isFlying
CrashStartCont(t) ==
  /\ t.kind = "crashStart"
  /\ t.pc = "rgt_ret"
  /\ \E cp \in CrashPoints :
       crash' = [crash EXCEPT !.isFlying = TRUE, !.crashed = FALSE, !.hasBet = TRUE,
                              !.multiplier = MScale, !.lastWin = 0, !.cashedOut = FALSE,
                              !.crashPoint = cp, !.ticks = 0, !.effTb = t.tb - t.bet]
  /\ tokenBalance' = t.tb - t.bet
  /\ tasks' = Drop(t)
  /\ UNCHANGED <<balance, log, cachedBalance, faults, game, user, call, blackjack, mines, dice, plinko, gh>>

CrashCashoutGuard_None(gs) == TRUE

\* cashout: "if (!hasBet || crashed || cashedOut) return" (part_005 285)
CrashCashoutGuard(gs) == gs.hasBet /\ ~gs.crashed /\ ~gs.cashedOut

CashoutTask(tb, bet, mult) ==
  [NoTask EXCEPT !.kind = "crashCashout", !.pc = "auth", !.game = "crash",
                 !.tb = tb, !.bet = bet, !.mult = mult, !.round = gh.round]

\* a click on the cash-out button (part_005 284-288)
CrashCashout ==
  /\ game = "crash"
  /\ IF CrashCashoutGuard(crash)
       THEN /\ HasFree
            /\ tasks' = Put(CashoutTask(tokenBalance, crash.betAmount, crash.multiplier))
            /\ gh' = [gh EXCEPT !.calls = gh.calls + 1,
                                !.clean = gh.clean /\ Pending = 0]
       ELSE /\ tasks' = tasks
            /\ gh' = [gh EXCEPT !.noop = gh.noop \/ (Quiet /\ (crash.cashedOut \/ crash.crashed))]
  /\ UNCHANGED <<balance, log, cachedBalance, ui, faults>>

\* cashout: newBalance = Number((tokenBalance + winnings).toFixed(2)) (part_005 298)
CashoutNewBalance(t) == t.tb + Winnings(t.bet, t.mult)

\* cashout after getUser: local balance first, then the win record (part_005 293-302)
CrashCashoutAuth(t) ==
  /\ t.kind = "crashCashout"
  /\ t.pc = "auth"
  /\ tokenBalance' = CashoutNewBalance(t)
  /\ tasks' = Swap(t, [t EXCEPT !.pc = WinPc, !.isWin = TRUE,
                                !.amt = Winnings(t.bet, t.mult) - t.bet,
                                !.arg = CashoutNewBalance(t)])
  /\ UNCHANGED <<balance, log, cachedBalance, faults, comps, gh>>

\* cashout: updateTokenBalance(user.id, newBalance), then the state update (part_005 304-313)
CrashCashoutUpdate(t) ==
  /\ t.kind = "crashCashout"
  /\ t.pc = "rgt_ret"
  /\ \/ /\ balance' = RoundedBalance(t.arg)
        /\ cachedBalance' = Cache(RoundedBalance(t.arg))
        /\ crash' = [crash EXCEPT !.hasBet = FALSE, !.lastWin = t.amt, !.cashedOut = TRUE]
        /\ gh' = GhSettled(t.round, t.mult)
        /\ tasks' = Drop(t)
        /\ UNCHANGED <<faults, tokenBalance, game, user, call, blackjack, mines, dice, plinko>>
     \/ /\ CanFail
        /\ faults' = faults + 1
        /\ Fail(t, "Failed to update token balance")
        /\ UNCHANGED <<balance, cachedBalance, gh>>
  /\ UNCHANGED log

\* prev.multiplier * BASE_MULTIPLIER (part_005 224)
NextMultiplier(m) == RoundDiv(m * BASE_MULTIPLIER, MScale)

\* one interval tick (part_005 222-239) and the crash effect (329-346)
CrashTick ==
  LET newMultiplier == NextMultiplier(crash.multiplier)
      autoFires == crash.autoCashoutAt > 0 /\ newMultiplier >= crash.autoCashoutAt
                     /\ ~crash.cashedOut
  IN
  /\ game = "crash"
  /\ crash.isFlying /\ ~crash.crashed
  /\ IF newMultiplier >= crash.crashPoint
       THEN /\ crash' = IF crash.hasBet
                          THEN [crash EXCEPT !.crashed = TRUE, !.hasBet = FALSE, !.isFlying = FALSE]
                          ELSE [crash EXCEPT !.crashed = TRUE]
            /\ UNCHANGED <<tasks, gh>>
       ELSE /\ crash.ticks < MaxTicks
            /\ crash' = [crash EXCEPT !.multiplier = newMultiplier, !.ticks = crash.ticks + 1]
            /\ IF autoFires
                 THEN /\ HasFree
                      /\ tasks' = Put(CashoutTask(crash.effTb, crash.betAmount, MScale))
                      /\ gh' = [gh EXCEPT !.calls = gh.calls + 1, !.clean = FALSE]
                 ELSE UNCHANGED <<tasks, gh>>
  /\ UNCHANGED <<balance, log, cachedBalance, tokenBalance, faults, game, user, call, blackjack, mines, dice, plinko>>

CrashStep(t) ==
  \/ CrashStartCont(t)
  \/ CrashCashoutAuth(t)
  \/ CrashCashoutUpdate(t)

RGTStep(t) ==
  \/ RGTRead(t)
  \/ RGTInsert(t)
  \/ RGTWrite(t)

NextCrash ==
  \/ CrashStartGame
  \/ CrashCashout
  \/ CrashTick
  \/ \E t \in Running : CrashStep(t)
  \/ \E t \in Running : RGTStep(t)

InitCrash ==
  /\ balance = InitBalance
  /\ log = <<>>
  /\ cachedBalance = NoCache
  /\ tokenBalance = InitBalance
  /\ tasks = EmptyBag
  /\ faults = 0
  /\ game = "crash"
  /\ user = "u1"
  /\ blackjack = BlackjackInit
  /\ \E b \in Bets, a \in AutoTargets : crash = CrashState(b, a)
  /\ mines = MinesInit
  /\ dice = DiceInit
  /\ plinko = PlinkoInit
  /\ gh = GhInit
  /\ call = NoCall

SpecCrash == InitCrash /\ [][NextCrash]_vars

\* ================================================= MinesGame, part_001
\* calculateMultiplier (part_001 43-46), in 1/10000
\* the pairs <<revealed, gemCount>> at which 0.99 x (25 - revealed) / gemCount
\* has a 5 as its third and last decimal and the double the code computes,
\* 0.99 / (gemCount / (25 - revealed)), lies below it, so that toFixed(2)
\* gives the lower hundredth; at every other pair toFixed(2) gives the
\* nearest hundredth, the upper one at the remaining ties
TiesFixedDown ==
  {<<0, 10>>, <<2, 2>>, <<2, 6>>, <<2, 18>>, <<2, 22>>, <<3, 4>>, <<4, 22>>, <<5, 8>>,
   <<6, 22>>, <<8, 6>>, <<8, 18>>, <<8, 22>>, <<10, 2>>, <<10, 6>>, <<12, 2>>, <<12, 18>>,
   <<12, 22>>, <<13, 24>>, <<14, 2>>, <<14, 18>>, <<14, 22>>, <<15, 4>>, <<15, 20>>,
   <<16, 18>>, <<16, 22>>, <<17, 16>>, <<18, 14>>, <<18, 18>>, <<19, 12>>, <<20, 2>>,
   <<20, 10>>, <<20, 18>>, <<20, 22>>, <<21, 8>>, <<22, 6>>, <<23, 4>>, <<24, 2>>,
   <<24, 22>>}

calculateMultiplier(revealed, mineCount, gemCount) ==
  (RoundDiv(99 * (GRID_SIZE * GRID_SIZE - revealed), gemCount)
     - IF <<revealed, gemCount>> \in TiesFixedDown THEN 1 ELSE 0) * 100

MinesKinds == {"minesCashout", "minesReveal", "minesRevealAll"}

\* the closure of a MinesGame handler: tokenBalance and gameState of the render
MinesTask(kind, tb, gs) ==
  [NoTask EXCEPT !.kind = kind, !.pc = "auth", !.game = "mines", !.tb = tb,
                 !.bet = gs.betAmount, !.mult = gs.currentMultiplier,
                 !.rc = gs.revealedCount, !.hg = gs.hiddenGems,
                 !.hm = gs.hiddenMines, !.he = gs.hiddenEmpty, !.round = gh.round]

MinesStartPc_Always(bet) == "rgt_read"

MinesStartPc_NoSpend(bet) == "rgt_ret"

\* "Only record transaction and update balance if bet amount > 0"
\* (part_001 189-197)
MinesStartPc(bet) == IF bet > 0 THEN "rgt_read" ELSE "rgt_ret"

\* startGame's validation (part_001 171-180)
MinesStartGuard ==
  /\ ~(mines.betAmount < 0 \/ mines.betAmount > tokenBalance)
  /\ mines.mineCount + mines.gemCount <= GRID_SIZE * GRID_SIZE

\* startGame up to its first store request (part_001 170-193), or its early
\* return; the button is
\* rendered while isPlaying is false (part_001 587-590)
MinesStartGame ==
  /\ game = "mines"
  /\ ~mines.isPlaying
  /\ IF MinesStartGuard /\ SignedIn
       THEN /\ HasFree
            /\ tasks' = Put([NoTask EXCEPT !.kind = "minesStart",
                                           !.pc = MinesStartPc(mines.betAmount),
                                           !.amt = mines.betAmount, !.isWin = FALSE,
                                           !.game = "mines", !.tb = tokenBalance,
                                           !.bet = mines.betAmount, !.round = gh.round + 1])
            /\ gh' = GhStart
       ELSE /\ tasks' = tasks
            /\ gh' = GhRejected
  /\ UNCHANGED <<balance, log, cachedBalance, ui, faults>>

\* the board initializeGame returns (part_001 72-101), all cells hidden
MinesStarted ==
  [mines EXCEPT !.isPlaying = TRUE, !.revealedCount = 0, !.currentMultiplier = MScale,
                !.lastWin = 0, !.hiddenGems = mines.gemCount,
                !.hiddenMines = mines.mineCount,
                !.hiddenEmpty = GRID_SIZE * GRID_SIZE - mines.gemCount - mines.mineCount]

\* startGame after the spend (part_001 195-210), and the auto-reveal effect
\* of the render that shows isPlaying (part_001 65-70)
MinesStartCont(t) ==
  LET newTb == IF t.bet > 0 THEN t.tb - t.bet ELSE tokenBalance
      effect == ~mines.isPlaying /\ mines.mineCount <= AUTO_REVEAL_THRESHOLD
  IN
  /\ t.kind = "minesStart"
  /\ t.pc = "rgt_ret"
  /\ tokenBalance' = newTb
  /\ mines' = MinesStarted
  /\ IF effect
       THEN /\ gh.calls < MaxCalls
            /\ tasks' = Swap(t, MinesTask("minesRevealAll", newTb, MinesStarted))
            /\ gh' = [gh EXCEPT !.calls = gh.calls + 1, !.clean = FALSE]
       ELSE /\ tasks' = Drop(t)
            /\ UNCHANGED gh
  /\ UNCHANGED <<balance, log, cachedBalance, faults, game, user, call, blackjack, crash, dice, plinko>>

\* revealTile on a mine or on an empty cell (part_001 218-265)
MinesRevealOther ==
  /\ game = "mines"
  /\ mines.isPlaying
  /\ \/ /\ mines.hiddenMines > 0
        /\ mines' = [mines EXCEPT !.isPlaying = FALSE, !.lastWin = 0,
                                  !.hiddenGems = 0, !.hiddenMines = 0]
     \/ /\ mines.hiddenEmpty > 0
        /\ mines' = [mines EXCEPT !.hiddenEmpty = mines.hiddenEmpty - 1]
  /\ UNCHANGED <<balance, log, cachedBalance, tokenBalance, tasks, faults, game, user, call, blackjack, crash,
                 dice, plinko, gh>>

\* revealTile on a gem, up to getUser (part_001 218-273)
MinesRevealGem ==
  /\ game = "mines"
  /\ HasFree
  /\ mines.isPlaying
  /\ mines.hiddenGems > 0
  /\ tasks' = Put(MinesTask("minesReveal", tokenBalance, mines))
  /\ gh' = [gh EXCEPT !.calls = gh.calls + 1]
  /\ UNCHANGED <<balance, log, cachedBalance, ui, faults>>

MinesCashoutGuard(gs) == gs.isPlaying /\ gs.revealedCount # 0

\* a cashout call (part_001 333-334)
MinesCashout ==
  /\ game = "mines"
  /\ IF MinesCashoutGuard(mines)
       THEN /\ HasFree
            /\ tasks' = Put(MinesTask("minesCashout", tokenBalance, mines))
            /\ gh' = [gh EXCEPT !.calls = gh.calls + 1,
                                !.clean = gh.clean /\ Pending = 0]
       ELSE /\ tasks' = tasks
            /\ gh' = [gh EXCEPT !.noop = gh.noop \/ (Quiet /\ ~mines.isPlaying)]
  /\ UNCHANGED <<balance, log, cachedBalance, ui, faults>>

\* the count and the multiplier a settlement works with: cashout takes the
\* state's (part_001 340), revealTile the next gem's (267-268), revealAllGems
\* every hidden gem's (109-121)
MinesNewCount(t) ==
  IF t.kind = "minesCashout" THEN t.rc
  ELSE IF t.kind = "minesReveal" THEN t.rc + 1
  ELSE t.hg

MinesNewMultiplier(t) ==
  IF t.kind = "minesCashout" THEN t.mult
  ELSE calculateMultiplier(MinesNewCount(t), mines.mineCount, mines.gemCount)

\* the state a settlement leaves (part_001 144-151, 295-302, 365-370)
MinesSettled(t) ==
  IF t.kind = "minesCashout"
    THEN [mines EXCEPT !.isPlaying = FALSE, !.lastWin = t.amt,
                       !.hiddenGems = 0, !.hiddenMines = 0, !.hiddenEmpty = t.he]
    ELSE [mines EXCEPT !.isPlaying = FALSE, !.lastWin = t.amt,
                       !.revealedCount = MinesNewCount(t),
                       !.currentMultiplier = MinesNewMultiplier(t),
                       !.hiddenGems = IF t.kind = "minesReveal" THEN t.hg - 1 ELSE 0,
                       !.hiddenMines = IF t.kind = "minesReveal" THEN t.hm ELSE 0,
                       !.hiddenEmpty = t.he]

\* revealTile settles when auto mode reaches its stop multiplier (part_001 279)
MinesSettles(t) ==
  t.kind # "minesReveal"
    \/ (mines.autoMode /\ MinesNewMultiplier(t) >= mines.autoStopAt)

\* after getUser: a gem reveal that goes on (part_001 317-322), or the local
\* balance and the win record of a settlement (123-133, 281-293, 343-354)
MinesAuth(t) ==
  LET m == MinesNewMultiplier(t)
      winnings == Winnings(t.bet, m)
  IN
  /\ t.kind \in MinesKinds
  /\ t.pc = "auth"
  /\ IF ~MinesSettles(t)
       THEN /\ mines' = [mines EXCEPT !.revealedCount = MinesNewCount(t),
                                      !.currentMultiplier = m,
                                      !.hiddenGems = t.hg - 1, !.hiddenMines = t.hm,
                                      !.hiddenEmpty = t.he]
            /\ tasks' = Drop(t)
            /\ UNCHANGED <<tokenBalance, gh>>
       ELSE IF t.bet > 0
         THEN /\ tokenBalance' = t.tb + winnings
              /\ tasks' = Swap(t, [t EXCEPT !.pc = WinPc, !.isWin = TRUE, !.mult = m,
                                            !.amt = winnings - t.bet, !.arg = t.tb + winnings])
              /\ UNCHANGED <<mines, gh>>
         ELSE /\ mines' = MinesSettled([t EXCEPT !.amt = winnings - t.bet])
              /\ tasks' = Drop(t)
              /\ gh' = GhSettled(t.round, m)
              /\ UNCHANGED tokenBalance
  /\ UNCHANGED <<balance, log, cachedBalance, faults, game, user, call, blackjack, crash, dice, plinko>>

\* updateTokenBalance(user.id, finalBalance), then the state update
\* (part_001 135-151, 295-302, 356-370)
MinesSettleUpdate(t) ==
  /\ t.kind \in MinesKinds
  /\ t.pc = "rgt_ret"
  /\ \/ /\ balance' = RoundedBalance(t.arg)
        /\ cachedBalance' = Cache(RoundedBalance(t.arg))
        /\ mines' = MinesSettled(t)
        /\ gh' = GhSettled(t.round, t.mult)
        /\ tasks' = Drop(t)
        /\ UNCHANGED <<faults, tokenBalance, game, user, call, blackjack, crash, dice, plinko>>
     \/ /\ CanFail
        /\ faults' = faults + 1
        /\ Fail(t, "Failed to update token balance")
        /\ UNCHANGED <<balance, cachedBalance, gh>>
  /\ UNCHANGED log

MinesStep(t) ==
  \/ MinesStartCont(t)
  \/ MinesAuth(t)
  \/ MinesSettleUpdate(t)

NextMines ==
  \/ MinesStartGame
  \/ MinesRevealOther
  \/ MinesRevealGem
  \/ MinesCashout
  \/ \E t \in Running : MinesStep(t)
  \/ \E t \in Running : RGTStep(t)

InitMines ==
  /\ balance = InitBalance
  /\ log = <<>>
  /\ cachedBalance = NoCache
  /\ tokenBalance = InitBalance
  /\ tasks = EmptyBag
  /\ faults = 0
  /\ game = "mines"
  /\ user = "u1"
  /\ blackjack = BlackjackInit
  /\ crash = CrashInit
  /\ \E c \in MinesConfigs : mines = MinesState(c[1], c[2], c[3], c[4])
  /\ dice = DiceInit
  /\ plinko = PlinkoInit
  /\ gh = GhInit
  /\ call = NoCall

SpecMines == InitMines /\ [][NextMines]_vars

\* the values picked in the two selects
MineChoices == {1, 2, 15, 24}
GemChoices == {1, 10, 15, 24, 25}

MinesSetMineCount_NoClamp(m) ==
  /\ game = "mines"
  /\ ~mines.isPlaying
  /\ m \in MIN_MINES..MAX_MINES
  /\ mines' = [mines EXCEPT !.mineCount = m]
  /\ mines' # mines
  /\ gh.calls < MaxCalls
  /\ gh' = [gh EXCEPT !.calls = gh.calls + 1]
  /\ UNCHANGED <<balance, log, cachedBalance, tokenBalance, tasks, faults, game, user, call, blackjack, crash,
                 dice, plinko>>

\* the mine-count select, enabled while no round is on: "gemCount:
\* Math.min(prev.gemCount, maxGems)" (part_001 507-523)
MinesSetMineCount(m) ==
  /\ game = "mines"
  /\ ~mines.isPlaying
  /\ m \in MIN_MINES..MAX_MINES
  /\ mines' = [mines EXCEPT !.mineCount = m,
                            !.gemCount = Min(mines.gemCount, GRID_SIZE * GRID_SIZE - m)]
  /\ mines' # mines
  /\ gh.calls < MaxCalls
  /\ gh' = [gh EXCEPT !.calls = gh.calls + 1]
  /\ UNCHANGED <<balance, log, cachedBalance, tokenBalance, tasks, faults, game, user, call, blackjack, crash,
                 dice, plinko>>

\* the gem-count select: its options run from MIN_GEMS to
\* Math.min(MAX_GEMS, GRID_SIZE * GRID_SIZE - mineCount) (part_001 530-548)
MinesSetGemCount(g) ==
  /\ game = "mines"
  /\ ~mines.isPlaying
  /\ g \in MIN_GEMS..Min(MAX_GEMS, GRID_SIZE * GRID_SIZE - mines.mineCount)
  /\ mines' = [mines EXCEPT !.gemCount = g]
  /\ mines' # mines
  /\ gh.calls < MaxCalls
  /\ gh' = [gh EXCEPT !.calls = gh.calls + 1]
  /\ UNCHANGED <<balance, log, cachedBalance, tokenBalance, tasks, faults, game, user, call, blackjack, crash,
                 dice, plinko>>

\* the MinesGame component from its mount, with the two selects, start clicks
\* and mine hits
InitMinesConfig ==
  /\ balance = InitBalance
  /\ log = <<>>
  /\ cachedBalance = NoCache
  /\ tokenBalance = InitBalance
  /\ tasks = EmptyBag
  /\ faults = 0
  /\ game = "mines"
  /\ user = "u1"
  /\ blackjack = BlackjackInit
  /\ crash = CrashInit
  /\ mines = MinesInit
  /\ dice = DiceInit
  /\ plinko = PlinkoInit
  /\ gh = GhInit
  /\ call = NoCall

NextMinesConfig ==
  \/ \E m \in MineChoices : MinesSetMineCount(m)
  \/ \E g \in GemChoices : MinesSetGemCount(g)
  \/ MinesStartGame
  \/ MinesRevealOther
  \/ \E t \in Running : MinesStep(t)
  \/ \E t \in Running : RGTStep(t)

SpecMinesConfig == InitMinesConfig /\ [][NextMinesConfig]_vars

\* ---- initializeGame (part_001 72-101), one sample of its loops at a time;
\* the cells are told apart only by what has been placed on them, so the
\* two Sets are kept as their sizes and the size of their intersection
PlaceConfigs == {<<1, 1>>, <<1, 24>>, <<24, 1>>, <<2, 22>>, <<10, 15>>, <<12, 13>>}

PlaceCall(mineCount, gemCount) ==
  [fn |-> "initializeGame", args |-> <<mineCount, gemCount>>, out |-> <<>>,
   pc |-> "mines", mines |-> 0, gems |-> 0, both |-> 0]

GemCellFree_IgnoresMines(onMine, onGem) == ~onGem

\* "if (!minePositions.has(pos) && !gemPositions.has(pos))" (part_001 93)
GemCellFree(onMine, onGem) == ~onMine /\ ~onGem

\* "while (minePositions.size < gameState.mineCount)": one random cell
\* (part_001 79-86); a cell that holds a mine already is not added again
PlaceMineSample ==
  /\ call.fn = "initializeGame"
  /\ call.pc = "mines"
  /\ call.mines < call.args[1]
  /\ \/ /\ call.mines > 0
        /\ call' = call
     \/ /\ call.mines < GRID_SIZE * GRID_SIZE
        /\ call' = [call EXCEPT !.mines = call.mines + 1]
  /\ UNCHANGED <<balance, log, cachedBalance, tokenBalance, tasks, faults, game, user, blackjack,
                 crash, mines, dice, plinko, gh>>

\* the mine loop has ended and the gem loop begins (part_001 79, 89-90)
PlaceMinesDone ==
  /\ call.fn = "initializeGame"
  /\ call.pc = "mines"
  /\ call.mines >= call.args[1]
  /\ call' = [call EXCEPT !.pc = "gems"]
  /\ UNCHANGED <<balance, log, cachedBalance, tokenBalance, tasks, faults, game, user, blackjack,
                 crash, mines, dice, plinko, gh>>

\* "while (gemsToPlace > 0 && gemPositions.size < gameState.gemCount)": one
\* random cell, on a mine, on a gem or on a free cell (part_001 90-98)
PlaceGemSample ==
  /\ call.fn = "initializeGame"
  /\ call.pc = "gems"
  /\ call.gems < call.args[2]
  /\ \E onMine, onGem \in BOOLEAN :
       /\ onMine /\ onGem => call.both > 0
       /\ onMine /\ ~onGem => call.mines - call.both > 0
       /\ ~onMine /\ onGem => call.gems - call.both > 0
       /\ ~onMine /\ ~onGem => call.mines + call.gems - call.both < GRID_SIZE * GRID_SIZE
       /\ call' = IF GemCellFree(onMine, onGem)
                    THEN [call EXCEPT !.gems = call.gems + 1,
                                      !.both = call.both + (IF onMine THEN 1 ELSE 0)]
                    ELSE call
  /\ UNCHANGED <<balance, log, cachedBalance, tokenBalance, tasks, faults, game, user, blackjack,
                 crash, mines, dice, plinko, gh>>

\* "return { grid: newGrid, minePositions, gemPositions }" (part_001 100)
PlaceReturn ==
  /\ call.fn = "initializeGame"
  /\ call.pc = "gems"
  /\ call.gems >= call.args[2]
  /\ call' = [call EXCEPT !.pc = "done", !.out = <<call.mines, call.gems, call.both>>]
  /\ UNCHANGED <<balance, log, cachedBalance, tokenBalance, tasks, faults, game, user, blackjack,
                 crash, mines, dice, plinko, gh>>

PlaceStep == PlaceMineSample \/ PlaceMinesDone \/ PlaceGemSample \/ PlaceReturn

InitPlace ==
  /\ balance = InitBalance
  /\ log = <<>>
  /\ cachedBalance = NoCache
  /\ tokenBalance = InitBalance
  /\ tasks = EmptyBag
  /\ faults = 0
  /\ game = "none"
  /\ user = "u1"
  /\ blackjack = BlackjackInit
  /\ crash = CrashInit
  /\ mines = MinesInit
  /\ dice = DiceInit
  /\ plinko = PlinkoInit
  /\ gh = GhInit
  /\ call \in {PlaceCall(c[1], c[2]) : c \in PlaceConfigs}

\* the grid of a Mines round: its placement by initializeGame, taken on its
\* own, and the rounds played on it; a fair sampler draws a cell that can
\* still be used
InitMinesGrid == InitMines \/ InitPlace

NextMinesGrid ==
  \/ PlaceMineSample
  \/ PlaceMinesDone
  \/ PlaceGemSample
  \/ PlaceReturn
  \/ NextMines

SpecMinesGrid == InitMinesGrid /\ [][NextMinesGrid]_vars /\ WF_vars(PlaceStep)

\* a Mines round left to itself after the start click: configurations at or
\* under AUTO_REVEAL_THRESHOLD, no tile click and no cash-out click; the
\* continuations of an invocation and the answers of the store come in time
AutoConfigs == {<<2000, 2, 22, 0>>, <<0, 2, 22, 0>>, <<2000, 1, 24, 0>>}

InitMinesAuto ==
  /\ balance = InitBalance
  /\ log = <<>>
  /\ cachedBalance = NoCache
  /\ tokenBalance = InitBalance
  /\ tasks = EmptyBag
  /\ faults = 0
  /\ game = "mines"
  /\ user = "u1"
  /\ blackjack = BlackjackInit
  /\ crash = CrashInit
  /\ \E c \in AutoConfigs : mines = MinesState(c[1], c[2], c[3], c[4])
  /\ dice = DiceInit
  /\ plinko = PlinkoInit
  /\ gh = GhInit
  /\ call = NoCall

NextMinesAuto ==
  \/ MinesStartGame
  \/ \E t \in Running : MinesStep(t)
  \/ \E t \in Running : RGTStep(t)

SpecMinesAuto ==
  /\ InitMinesAuto
  /\ [][NextMinesAuto]_vars
  /\ WF_vars(\E t \in Running : MinesStep(t) \/ RGTStep(t))

\* Crash and Mines, the two games with a cashout call
InitCashout == InitCrash \/ InitMines

NextCashout ==
  \/ CrashStartGame
  \/ CrashCashout
  \/ CrashTick
  \/ MinesStartGame
  \/ MinesRevealOther
  \/ MinesRevealGem
  \/ MinesCashout
  \/ \E t \in Running : CrashStep(t) \/ MinesStep(t) \/ RGTStep(t)

SpecCashout == InitCashout /\ [][NextCashout]_vars

\* =================================================== DiceGame, part_003
\* calculateMultiplier: parseFloat((99 / target).toFixed(4)) (part_003 75-77)
DiceMultiplier(target) == RoundDiv(99 * MScale, target)

\* the slider sets target and multiplier (part_003 45-59)
DiceSetTarget(newTarget) ==
  /\ game = "dice"
  /\ ~dice.isRolling
  /\ dice' = [dice EXCEPT !.targetNumber = newTarget, !.multiplier = DiceMultiplier(newTarget)]
  /\ dice' # dice
  /\ UNCHANGED <<balance, log, cachedBalance, tokenBalance, tasks, faults, game, user, call, blackjack, crash,
                 mines, plinko, gh>>

\* rollDice up to its first store request (part_003 83-96); the closure
\* keeps the bet, the target, the multiplier and the tokenBalance of the click
DiceRoll ==
  /\ game = "dice"
  /\ ~dice.isRolling
  /\ IF ~(dice.betAmount <= 0 \/ dice.betAmount > tokenBalance \/ dice.isRolling) /\ SignedIn
       THEN /\ HasFree
            /\ tasks' = Put([NoTask EXCEPT !.kind = "diceRoll", !.pc = "rgt_read",
                                           !.amt = dice.betAmount, !.isWin = FALSE,
                                           !.game = "dice", !.tb = tokenBalance,
                                           !.bet = dice.betAmount, !.mult = dice.multiplier,
                                           !.rc = dice.targetNumber, !.round = gh.round + 1])
            /\ gh' = GhStart
       ELSE /\ tasks' = tasks
            /\ gh' = GhRejected
  /\ UNCHANGED <<balance, log, cachedBalance, ui, faults>>

\* rollDice after the spend: the local balance, isRolling, the interval
\* (part_003 98-112)
DiceRollCont(t) ==
  /\ t.kind = "diceRoll"
  /\ t.pc = "rgt_ret"
  /\ tokenBalance' = t.tb - t.bet
  /\ dice' = [dice EXCEPT !.isRolling = TRUE]
  /\ tasks' = Swap(t, [t EXCEPT !.kind = "diceSettle", !.pc = "rolling"])
  /\ UNCHANGED <<balance, log, cachedBalance, faults, game, user, call, blackjack, crash, mines, plinko, gh>>

\* the last interval callback, an invocation of its own, up to its first
\* store request (part_003 113-143)
DiceFinal(t) ==
  LET winnings == Winnings(t.bet, t.mult) IN
  /\ t.kind = "diceSettle"
  /\ t.pc = "rolling"
  /\ gh.calls < MaxCalls
  /\ gh' = [gh EXCEPT !.calls = gh.calls + 1]
  /\ \E finalResult \in DiceRolls :
       IF finalResult <= t.rc
         THEN /\ tokenBalance' = t.tb + winnings
              /\ tasks' = Swap(t, [t EXCEPT !.pc = WinPc, !.isWin = TRUE,
                                            !.amt = winnings - t.bet,
                                            !.arg = t.tb + winnings])
         ELSE /\ tasks' = Swap(t, [t EXCEPT !.pc = "upd_loss", !.amt = 0,
                                            !.arg = t.tb - t.bet])
              /\ UNCHANGED tokenBalance
  /\ UNCHANGED <<balance, log, cachedBalance, faults, comps>>

\* updateTokenBalance of the callback, then the state update (part_003 133-150)
DiceSettleUpdate(t) ==
  /\ t.kind = "diceSettle"
  /\ t.pc \in {"rgt_ret", "upd_loss"}
  /\ \/ /\ balance' = RoundedBalance(t.arg)
        /\ cachedBalance' = Cache(RoundedBalance(t.arg))
        /\ dice' = [dice EXCEPT !.isRolling = FALSE, !.lastWin = t.amt]
        /\ gh' = IF t.isWin THEN GhSettled(t.round, t.mult) ELSE gh
        /\ tasks' = Drop(t)
        /\ UNCHANGED <<faults, tokenBalance, game, user, call, blackjack, crash, mines, plinko>>
     \/ /\ CanFail
        /\ faults' = faults + 1
        /\ Fail(t, "Failed to update token balance")
        /\ UNCHANGED <<balance, cachedBalance, gh>>
  /\ UNCHANGED log

DiceStep(t) ==
  \/ DiceRollCont(t)
  \/ DiceFinal(t)
  \/ DiceSettleUpdate(t)

NextDice ==
  \/ \E newTarget \in DiceTargets : DiceSetTarget(newTarget)
  \/ DiceRoll
  \/ \E t \in Running : DiceStep(t)
  \/ \E t \in Running : RGTStep(t)

InitDice ==
  /\ balance = InitBalance
  /\ log = <<>>
  /\ cachedBalance = NoCache
  /\ tokenBalance = InitBalance
  /\ tasks = EmptyBag
  /\ faults = 0
  /\ game = "dice"
  /\ user = "u1"
  /\ blackjack = BlackjackInit
  /\ crash = CrashInit
  /\ mines = MinesInit
  /\ dice = DiceInit
  /\ plinko = PlinkoInit
  /\ gh = GhInit
  /\ call = NoCall

SpecDice == InitDice /\ [][NextDice]_vars

\* the interval timer fires and the store answers every request: the steps
\* of the invocations in flight are taken fairly; clicks are not
SpecDiceFair ==
  SpecDice /\ WF_vars(\E t \in Running : DiceStep(t) \/ RGTStep(t))

\* ========================================= PlinkoGame, PlinkoGame.tsx
\* MULTIPLIERS.Medium at the buckets the model lands in (PlinkoGame.tsx 48)
PlinkoMultiplier(bucket) == IF bucket = 4 THEN MEDIUM_4 ELSE MEDIUM_8

\* dropBall up to its first store request (PlinkoGame.tsx 357-378)
PlinkoDropBall ==
  /\ game = "plinko"
  /\ ~plinko.isDropping
  /\ IF ~(plinko.betAmount <= 0) /\ ~(plinko.betAmount > tokenBalance) /\ SignedIn
       THEN /\ HasFree
            /\ tasks' = Put([NoTask EXCEPT !.kind = "plinkoDrop", !.pc = "rgt_read",
                                           !.amt = plinko.betAmount, !.isWin = FALSE,
                                           !.game = "plinko", !.tb = tokenBalance,
                                           !.bet = plinko.betAmount, !.round = gh.round + 1])
            /\ gh' = GhStart
       ELSE /\ tasks' = tasks
            /\ gh' = GhRejected
  /\ UNCHANGED <<balance, log, cachedBalance, ui, faults>>

\* dropBall after the spend: updateTokenBalance(tokenBalance - bet), the local
\* balance, isDropping and the ball (PlinkoGame.tsx 387-415)
PlinkoDropUpdate(t) ==
  /\ t.kind = "plinkoDrop"
  /\ t.pc = "rgt_ret"
  /\ \/ /\ balance' = RoundedBalance(t.tb - t.bet)
        /\ cachedBalance' = Cache(RoundedBalance(t.tb - t.bet))
        /\ tokenBalance' = t.tb - t.bet
        /\ \E targetBucket \in PlinkoTargets :
             plinko' = [plinko EXCEPT !.isDropping = TRUE, !.lastWin = 0, !.ball = "falling",
                                      !.effTb = t.tb - t.bet, !.targetBucket = targetBucket]
        /\ tasks' = Drop(t)
        /\ UNCHANGED <<faults, game, user, call, blackjack, crash, mines, dice>>
     \/ /\ CanFail
        /\ faults' = faults + 1
        /\ Fail(t, "Failed to update token balance")
        /\ UNCHANGED <<balance, cachedBalance>>
  /\ UNCHANGED <<log, gh>>

\* an animation frame with the ball at the buckets: updateBall starts a
\* settlement (PlinkoGame.tsx 222-224, 280-283, 447-450)
PlinkoFrame ==
  /\ game = "plinko"
  /\ plinko.ball # "none"
  /\ HasFree
  /\ plinko' = [plinko EXCEPT !.ball = "landed"]
  /\ tasks' = Put([NoTask EXCEPT !.kind = "plinkoSettle", !.pc = "auth", !.game = "plinko",
                                 !.tb = plinko.effTb, !.bet = plinko.betAmount,
                                 !.hg = plinko.targetBucket, !.round = gh.round])
  /\ gh' = [gh EXCEPT !.calls = gh.calls + 1,
                      !.clean = gh.clean /\ plinko.ball = "falling"]
  /\ UNCHANGED <<balance, log, cachedBalance, tokenBalance, faults, game, user, call, blackjack, crash, mines, dice>>

\* the settlement after getUser: the bucket under the ball, which the random
\* terms of the motion (PlinkoGame.tsx 241, 268) leave open (284-294)
PlinkoSettleAuth(t) ==
  /\ t.kind = "plinkoSettle"
  /\ t.pc = "auth"
  /\ \E bucketIndex \in PlinkoBuckets :
       LET winnings == Winnings(t.bet, PlinkoMultiplier(bucketIndex)) IN
       tasks' = Swap(t, [t EXCEPT !.pc = "upd", !.mult = PlinkoMultiplier(bucketIndex),
                                  !.rc = bucketIndex,
                                  !.isWin = TRUE, !.amt = winnings - t.bet,
                                  !.arg = t.tb + winnings])
  /\ UNCHANGED <<balance, log, cachedBalance, faults, ui, gh>>

\* setGameState and setCurrentBall(null) at the end of a settlement
\* (PlinkoGame.tsx 302-322)
PlinkoSettled(t) == [plinko EXCEPT !.isDropping = FALSE, !.lastWin = t.amt, !.ball = "none"]

\* updateTokenBalance(newBalance) and onBalanceChange (PlinkoGame.tsx 294-300)
PlinkoSettleUpdate(t) ==
  /\ t.kind = "plinkoSettle"
  /\ t.pc = "upd"
  /\ \/ /\ balance' = RoundedBalance(t.arg)
        /\ cachedBalance' = Cache(RoundedBalance(t.arg))
        /\ tokenBalance' = t.arg
        /\ IF t.amt > 0
             THEN /\ tasks' = Swap(t, [t EXCEPT !.pc = "rgt_read"])
                  /\ UNCHANGED <<plinko, gh>>
             ELSE /\ tasks' = Drop(t)
                  /\ plinko' = PlinkoSettled(t)
                  /\ gh' = GhSettled(t.round, t.mult)
        /\ UNCHANGED <<faults, game, user, call, blackjack, crash, mines, dice>>
     \/ /\ CanFail
        /\ faults' = faults + 1
        /\ Fail(t, "Failed to update token balance")
        /\ UNCHANGED <<balance, cachedBalance, gh>>
  /\ UNCHANGED log

\* the settlement after its win record (PlinkoGame.tsx 302-322)
PlinkoSettleCont(t) ==
  /\ t.kind = "plinkoSettle"
  /\ t.pc = "rgt_ret"
  /\ plinko' = PlinkoSettled(t)
  /\ gh' = GhSettled(t.round, t.mult)
  /\ tasks' = Drop(t)
  /\ UNCHANGED <<balance, log, cachedBalance, tokenBalance, faults, game, user, call, blackjack, crash, mines, dice>>

\* the settlement catch reads the balance back (PlinkoGame.tsx 331-345)
PlinkoRestore(t) ==
  /\ t.kind = "plinkoSettle"
  /\ t.pc = "restore"
  /\ tokenBalance' = balance
  /\ tasks' = Drop(t)
  /\ UNCHANGED <<balance, log, cachedBalance, faults, comps, gh>>

PlinkoStep(t) ==
  \/ PlinkoDropUpdate(t)
  \/ PlinkoSettleAuth(t)
  \/ PlinkoSettleUpdate(t)
  \/ PlinkoSettleCont(t)
  \/ PlinkoRestore(t)

NextPlinko ==
  \/ PlinkoDropBall
  \/ PlinkoFrame
  \/ \E t \in Running : PlinkoStep(t)
  \/ \E t \in Running : RGTStep(t)

InitPlinko ==
  /\ balance = InitBalance
  /\ log = <<>>
  /\ cachedBalance = NoCache
  /\ tokenBalance = InitBalance
  /\ tasks = EmptyBag
  /\ faults = 0
  /\ game = "plinko"
  /\ user = "u1"
  /\ blackjack = BlackjackInit
  /\ crash = CrashInit
  /\ mines = MinesInit
  /\ dice = DiceInit
  /\ plinko = PlinkoInit
  /\ gh = GhInit
  /\ call = NoCall

SpecPlinko == InitPlinko /\ [][NextPlinko]_vars

\* ================================================ BlackjackGame, part_006
\* the dealer draws to 17 (part_006 185-195); <<hand, deck>> afterwards
RECURSIVE DealerDraw(_, _)
DealerDraw(hand, deck) ==
  IF calculateScore(hand) < 17
    THEN DealerDraw(Append(hand, Head(deck)), Tail(deck))
    ELSE <<hand, deck>>

\* handleDealerTurn's verdict (part_006 205-223)
PlayerWins(playerHand, dealerHand) ==
  LET playerScore == calculateScore(playerHand)
      dealerScore == calculateScore(dealerHand)
      playerBlackjack == playerScore = 21 /\ Len(playerHand) = 2
      dealerBlackjack == dealerScore = 21 /\ Len(dealerHand) = 2
  IN IF playerScore > 21 THEN FALSE
     ELSE IF dealerScore > 21 THEN TRUE
     ELSE IF playerBlackjack /\ ~dealerBlackjack THEN TRUE
     ELSE IF ~playerBlackjack /\ dealerBlackjack THEN FALSE
     ELSE playerScore > dealerScore

\* handleGameEnd(playerWins, isBlackjack) called from a render with this
\* tokenBalance and bet (part_006 225, 228)
GameEndTask(playerWins, isBlackjack, tb, bet) ==
  [NoTask EXCEPT !.kind = "bjEnd", !.pc = "auth", !.game = "blackjack",
                 !.isWin = playerWins, !.rc = IF isBlackjack THEN 1 ELSE 0,
                 !.tb = tb, !.bet = bet, !.round = gh.round]

\* startGame: "if (betAmount <= 0 || betAmount > tokenBalance) return" (part_006 103-105)
BjStartGuard == ~(blackjack.betAmount <= 0 \/ blackjack.betAmount > tokenBalance)

\* startGame up to its first store request (part_006 102-115), or its
\* early return; the button is rendered in the betting phase (370-386)
BjStartGame ==
  /\ game = "blackjack"
  /\ blackjack.gamePhase = "betting"
  /\ IF BjStartGuard /\ SignedIn
       THEN /\ HasFree
            /\ tasks' = Put([NoTask EXCEPT !.kind = "bjStart", !.pc = "rgt_read",
                                           !.amt = blackjack.betAmount, !.isWin = FALSE,
                                           !.game = "blackjack", !.tb = tokenBalance,
                                           !.bet = blackjack.betAmount,
                                           !.deck = blackjack.deck,
                                           !.round = gh.round + 1])
            /\ gh' = GhStart
       ELSE /\ tasks' = tasks
            /\ gh' = GhRejected
  /\ UNCHANGED <<balance, log, cachedBalance, ui, faults>>

\* startGame after the spend (part_006 117-153): the local balance, the deal
\* from the deck of the click, and on 21 the dealer turn of the click's
\* render, whose hands are empty (betting phase)
BjStartCont(t) ==
  LET playerHand == <<t.deck[1], t.deck[3]>>
      dealerHand == <<t.deck[2], t.deck[4]>>
      deck == SubSeq(t.deck, 5, Len(t.deck))
      dealt == [blackjack EXCEPT !.playerHand = playerHand, !.dealerHand = dealerHand,
                                 !.deck = deck, !.gamePhase = "playing",
                                 !.playerScore = calculateScore(playerHand),
                                 !.dealerScore = calculateScore(dealerHand),
                                 !.lastWin = 0]
      turn == DealerDraw(<<>>, t.deck)
  IN
  /\ t.kind = "bjStart"
  /\ t.pc = "rgt_ret"
  /\ tokenBalance' = t.tb - t.bet
  /\ gh' = [gh EXCEPT !.natural = /\ t.round = gh.round
                                  /\ calculateScore(playerHand) = 21
                                  /\ calculateScore(dealerHand) # 21]
  /\ IF calculateScore(playerHand) = 21
       THEN /\ blackjack' = [dealt EXCEPT !.dealerHand = turn[1], !.deck = turn[2],
                                          !.dealerScore = calculateScore(turn[1]),
                                          !.gamePhase = "complete"]
            /\ tasks' = Swap(t, GameEndTask(PlayerWins(<<>>, turn[1]), FALSE, t.tb, t.bet))
       ELSE /\ blackjack' = dealt
            /\ tasks' = Drop(t)
  /\ UNCHANGED <<balance, log, cachedBalance, faults, game, user, call, crash, mines, dice, plinko>>

\* hit (part_006 160-178)
BjHit ==
  LET newHand == Append(blackjack.playerHand, Head(blackjack.deck))
      newScore == calculateScore(newHand)
  IN
  /\ game = "blackjack"
  /\ blackjack.gamePhase = "playing"
  /\ blackjack.deck # <<>>
  /\ blackjack' = [blackjack EXCEPT !.playerHand = newHand, !.deck = Tail(blackjack.deck),
                                    !.playerScore = newScore,
                                    !.gamePhase = IF newScore > 21 THEN "complete" ELSE "playing"]
  /\ gh.calls < MaxCalls
  /\ gh' = [gh EXCEPT !.calls = gh.calls + 1]
  /\ IF newScore > 21
       THEN /\ Pending < MaxPending
            /\ tasks' = Put(GameEndTask(FALSE, FALSE, tokenBalance, blackjack.betAmount))
       ELSE UNCHANGED tasks
  /\ UNCHANGED <<balance, log, cachedBalance, tokenBalance, faults, game, user, call, crash, mines,
                 dice, plinko>>

\* stand and handleDealerTurn (part_006 180-226)
BjStand ==
  LET turn == DealerDraw(blackjack.dealerHand, blackjack.deck)
      playerBlackjack == /\ calculateScore(blackjack.playerHand) = 21
                         /\ Len(blackjack.playerHand) = 2
  IN
  /\ game = "blackjack"
  /\ blackjack.gamePhase = "playing"
  /\ HasFree
  /\ blackjack' = [blackjack EXCEPT !.dealerHand = turn[1], !.deck = turn[2],
                                    !.dealerScore = calculateScore(turn[1]),
                                    !.gamePhase = "complete"]
  /\ tasks' = Put(GameEndTask(PlayerWins(blackjack.playerHand, turn[1]), playerBlackjack,
                              tokenBalance, blackjack.betAmount))
  /\ gh' = [gh EXCEPT !.calls = gh.calls + 1]
  /\ UNCHANGED <<balance, log, cachedBalance, tokenBalance, faults, game, user, call, crash, mines,
                 dice, plinko>>

\* handleGameEnd: "Blackjack pays 3:2" (part_006 236-239)
BjWinnings(t) == IF t.rc = 1 THEN RoundDiv(t.bet * 25, 10) ELSE RoundDiv(t.bet * 2, 1)

\* handleGameEnd after getUser (part_006 229-246): a win raises the local
\* balance and records the profit, a loss only sets lastWin
BjEndAuth(t) ==
  /\ t.kind = "bjEnd"
  /\ t.pc = "auth"
  /\ IF t.isWin
       THEN /\ tokenBalance' = t.tb + BjWinnings(t)
            /\ tasks' = Swap(t, [t EXCEPT !.pc = WinPc, !.amt = BjWinnings(t) - t.bet,
                                          !.arg = t.tb + BjWinnings(t)])
            /\ UNCHANGED blackjack
       ELSE /\ blackjack' = [blackjack EXCEPT !.lastWin = 0]
            /\ tasks' = Drop(t)
            /\ UNCHANGED tokenBalance
  /\ UNCHANGED <<balance, log, cachedBalance, faults, game, user, call, crash, mines, dice, plinko, gh>>

\* handleGameEnd: updateTokenBalance(user.id, newBalance), then lastWin
\* (part_006 247-258)
BjEndUpdate(t) ==
  /\ t.kind = "bjEnd"
  /\ t.pc = "rgt_ret"
  /\ \/ /\ balance' = RoundedBalance(t.arg)
        /\ cachedBalance' = Cache(RoundedBalance(t.arg))
        /\ blackjack' = [blackjack EXCEPT !.lastWin = t.amt]
        /\ gh' = GhSettled(t.round, BjWinnings(t))
        /\ tasks' = Drop(t)
        /\ UNCHANGED <<faults, tokenBalance, game, user, call, crash, mines, dice, plinko>>
     \/ /\ CanFail
        /\ faults' = faults + 1
        /\ Fail(t, "Failed to update token balance")
        /\ UNCHANGED <<balance, cachedBalance, gh>>
  /\ UNCHANGED log

\* resetGame (part_006 277-288): createDeck() shuffles a new deck
BjReset ==
  /\ game = "blackjack"
  /\ blackjack.gamePhase = "complete"
  /\ gh.calls < MaxCalls
  /\ \E deck \in Decks : blackjack' = BlackjackState(deck, blackjack.betAmount)
  /\ gh' = [gh EXCEPT !.calls = gh.calls + 1]
  /\ UNCHANGED <<balance, log, cachedBalance, tokenBalance, tasks, faults, game, user, call, crash,
                 mines, dice, plinko>>

BjStep(t) ==
  \/ BjStartCont(t)
  \/ BjEndAuth(t)
  \/ BjEndUpdate(t)

NextBlackjack ==
  \/ BjStartGame
  \/ BjHit
  \/ BjStand
  \/ BjReset
  \/ \E t \in Running : BjStep(t)
  \/ \E t \in Running : RGTStep(t)

InitBlackjack ==
  /\ balance = InitBalance
  /\ log = <<>>
  /\ cachedBalance = NoCache
  /\ tokenBalance = InitBalance
  /\ tasks = EmptyBag
  /\ faults = 0
  /\ game = "blackjack"
  /\ user \in Users
  /\ \E deck \in Decks, bet \in BjBets : blackjack = BlackjackState(deck, bet)
  /\ crash = CrashInit
  /\ mines = MinesInit
  /\ dice = DiceInit
  /\ plinko = PlinkoInit
  /\ gh = GhInit
  /\ call = NoCall

SpecBlackjack == InitBlackjack /\ [][NextBlackjack]_vars

\* ============================================================ all games
\* the bets a start request is made with: a valid one, zero, and one above
\* the balance
StartBets == {6000, 0, 12000}

GameNames == {"crash", "mines", "dice", "plinko", "blackjack"}

\* one of the five game components is mounted, with its bet typed in and a
\* session that is live or gone
InitGames ==
  /\ balance = InitBalance
  /\ log = <<>>
  /\ cachedBalance = NoCache
  /\ tokenBalance = InitBalance
  /\ tasks = EmptyBag
  /\ faults = 0
  /\ game \in GameNames
  /\ user \in Users
  /\ blackjack \in IF game = "blackjack"
                     THEN {BlackjackState(d, b) : d \in Decks, b \in StartBets}
                     ELSE {BlackjackInit}
  /\ crash \in IF game = "crash"
                 THEN {CrashState(b, 0) : b \in StartBets}
                 ELSE {CrashInit}
  /\ mines \in IF game = "mines"
                 THEN {MinesState(b, 10, 15, 0) : b \in StartBets}
                 ELSE {MinesInit}
  /\ dice \in IF game = "dice"
                THEN {[DiceInit EXCEPT !.betAmount = b] : b \in StartBets}
                ELSE {DiceInit}
  /\ plinko \in IF game = "plinko"
                  THEN {[PlinkoInit EXCEPT !.betAmount = b] : b \in StartBets}
                  ELSE {PlinkoInit}
  /\ gh = GhInit
  /\ call = NoCall

NextGames ==
  \/ CrashStartGame
  \/ CrashCashout
  \/ CrashTick
  \/ MinesStartGame
  \/ MinesRevealOther
  \/ MinesRevealGem
  \/ MinesCashout
  \/ \E newTarget \in DiceTargets : DiceSetTarget(newTarget)
  \/ DiceRoll
  \/ PlinkoDropBall
  \/ PlinkoFrame
  \/ BjStartGame
  \/ BjHit
  \/ BjStand
  \/ BjReset
  \/ \E t \in Running : CrashStep(t) \/ MinesStep(t) \/ DiceStep(t)
  \/ \E t \in Running : PlinkoStep(t) \/ BjStep(t) \/ RGTStep(t)

SpecGames == InitGames /\ [][NextGames]_vars

InitCommon ==
  /\ balance = InitBalance
  /\ log = <<>>
  /\ cachedBalance = NoCache
  /\ tokenBalance = InitBalance
  /\ tasks = EmptyBag
  /\ faults = 0
  /\ user = "u1"
  /\ blackjack = BlackjackInit
  /\ crash = CrashInit
  /\ mines = MinesInit
  /\ dice = DiceInit
  /\ plinko = PlinkoInit
  /\ gh = GhInit
  /\ call = NoCall

InitLedger == InitCommon /\ game = "ledger"

NextLedger ==
  \/ \E a \in SpendAmounts : CallRecordGameTransaction(a, FALSE)
  \/ \E a \in WinAmounts : CallRecordGameTransaction(a, TRUE)
  \/ \E v \in DirectArgs : CallUpdateTokenBalance(v)
  \/ \E a \in SolAmounts : CallBuyTokens(a)
  \/ LedgerStep

SpecLedger == InitLedger /\ [][NextLedger]_vars

\* what the module cache may hold when a call starts: nothing, the stored
\* balance, or an amount the store no longer has
CacheStates == {NoCache, Cache(InitBalance), Cache(3000), Cache(20000)}

\* CACHE_DURATION has passed since the cache was written
CacheExpires ==
  /\ cachedBalance.valid
  /\ cachedBalance.fresh
  /\ cachedBalance' = [cachedBalance EXCEPT !.fresh = FALSE]
  /\ UNCHANGED <<balance, log, tokenBalance, tasks, faults, comps, gh>>

InitLedgerCache ==
  /\ balance = InitBalance
  /\ log = <<>>
  /\ cachedBalance \in CacheStates
  /\ tokenBalance = InitBalance
  /\ tasks = EmptyBag
  /\ faults = 0
  /\ game = "ledger"
  /\ user = "u1"
  /\ blackjack = BlackjackInit
  /\ crash = CrashInit
  /\ mines = MinesInit
  /\ dice = DiceInit
  /\ plinko = PlinkoInit
  /\ gh = GhInit
  /\ call = NoCall

\* recordGameTransaction calls, as spends and wins, with the cache ageing
NextLedgerCache ==
  \/ \E a \in SpendAmounts : CallRecordGameTransaction(a, FALSE)
  \/ \E a \in WinAmounts : CallRecordGameTransaction(a, TRUE)
  \/ \E t \in Running : RGTRead(t)
  \/ \E t \in Running : RGTInsert(t)
  \/ \E t \in Running : RGTWrite(t)
  \/ CacheExpires

SpecLedgerCache == InitLedgerCache /\ [][NextLedgerCache]_vars

\* getTokenBalance: "if (cachedBalance && Date.now() - cachedBalance.timestamp
\* < CACHE_DURATION)" (tokens.ts 11)
CacheHit == cachedBalance.valid /\ cachedBalance.fresh

\* getTokenBalance up to its return of the cached value or to its first
\* await (tokens.ts 8-15); arg is the value returned, rc the store reads made
CallGetTokenBalance ==
  /\ game = "ledger"
  /\ HasFree
  /\ tasks' = Put(IF CacheHit
                    THEN [NoTask EXCEPT !.kind = "gtb", !.pc = "done", !.arg = cachedBalance.value]
                    ELSE [NoTask EXCEPT !.kind = "gtb", !.pc = "gtb_auth"])
  /\ gh' = [gh EXCEPT !.calls = gh.calls + 1]
  /\ UNCHANGED <<balance, log, cachedBalance, ui, faults>>

\* getTokenBalance after getUser (tokens.ts 15-18)
GTBAuth(t) ==
  /\ t.kind = "gtb"
  /\ t.pc = "gtb_auth"
  /\ tasks' = Swap(t, IF user = "none"
                        THEN [t EXCEPT !.pc = "failed", !.err = "User not authenticated"]
                        ELSE [t EXCEPT !.pc = "gtb_read"])
  /\ UNCHANGED <<balance, log, cachedBalance, ui, faults, gh>>

\* getTokenBalance: the select, the cache update and the return (tokens.ts 20-37)
GTBRead(t) ==
  /\ t.kind = "gtb"
  /\ t.pc = "gtb_read"
  /\ \/ /\ tasks' = Swap(t, [t EXCEPT !.pc = "done", !.cur = balance, !.arg = balance,
                                       !.rc = t.rc + 1])
        /\ cachedBalance' = Cache(balance)
        /\ UNCHANGED faults
     \/ /\ CanFail
        /\ faults' = faults + 1
        /\ tasks' = Swap(t, [t EXCEPT !.pc = "failed", !.err = "Failed to get token balance"])
        /\ UNCHANGED cachedBalance
  /\ UNCHANGED <<balance, log, ui, gh>>

\* the profits recordGameTransaction is handed as wins: winnings - betAmount,
\* below 0 when the round is settled at a multiplier under 1 (part_001 121-129)
ProfitAmounts == {5000, 0 - 12000}

\* the ledger API with getTokenBalance, the cache ageing
NextBalanceCache ==
  \/ CallGetTokenBalance
  \/ \E t \in Running : GTBAuth(t)
  \/ \E t \in Running : GTBRead(t)
  \/ CacheExpires
  \/ \E a \in ProfitAmounts : CallRecordGameTransaction(a, TRUE)
  \/ \E v \in DirectArgs : CallUpdateTokenBalance(v)
  \/ \E a \in SolAmounts : CallBuyTokens(a)
  \/ LedgerStep

SpecBalanceCache == InitLedgerCache /\ [][NextBalanceCache]_vars

C2_OverdrawnSpendRejected ==
  \A t \in Running :
    (t.kind = "rgt" /\ ~t.isWin /\ t.pc # "rgt_read"
       /\ t.err # "Failed to get current balance" /\ t.amt > t.cur)
      => (t.pc = "failed" /\ t.err = "Insufficient token balance" /\ t.ins = 0 /\ t.wr = 0)

\* a spend was rejected for exceeding the persisted balance
C2_Witness ==
  \E t \in Running :
    /\ t.kind = "rgt"
    /\ ~t.isWin
    /\ t.err = "Insufficient token balance"
    /\ t.amt > t.cur
    /\ t.cur = balance

\* two spend calls are in flight at once after reading the same balance b,
\* each amount <= b and their sum > b
Overdraft(t1, t2) ==
  /\ t1.kind = "rgt" /\ ~t1.isWin /\ t1.pc \in {"rgt_insert", "rgt_write"}
  /\ t2.kind = "rgt" /\ ~t2.isWin /\ t2.pc \in {"rgt_insert", "rgt_write"}
  /\ t1.cur = t2.cur
  /\ t1.amt <= t1.cur
  /\ t2.amt <= t2.cur
  /\ t1.amt + t2.amt > t1.cur

\* C3: of two overlapping spends that each fit the balance but together
\* exceed it, at most one appends its game_spend record.
C3_AtMostOneSpendSucceeds ==
  \A t1, t2 \in Running :
    ((t1 # t2 \/ CopiesIn(t1, tasks) >= 2) /\ Overdraft(t1, t2)) => t1.ins + t2.ins <= 1

\* C4: when no ledger call is in flight (and no direct updateTokenBalance
\* was issued) the persisted balance is the initial balance minus the
\* successful spends plus the successful credits.
C4_NoLostUpdate ==
  (Quiet /\ gh.direct = 0) => balance = InitBalance + gh.net

\* ========================================================= round claims
\* the records appended since the round's start click
RoundLog == SubSeq(log, gh.logBefore + 1, Len(log))

\* C5: for a single round, at most one settlement goes through and at most
\* one game_win record is appended, whatever the interleaving of the
\* settlement triggers.
C5_SettledAtMostOnce == gh.roundWins <= 1 /\ gh.roundSettled <= 1

\* the component shows the round as settled
SettledVisible ==
  \/ game = "crash" /\ (crash.cashedOut \/ crash.crashed)
  \/ game = "mines" /\ ~mines.isPlaying

\* this step creates a cash-out invocation
CashoutCreated ==
  \E u \in BagToSet(tasks') :
    /\ u.kind \in {"crashCashout", "minesCashout"}
    /\ u.pc = "auth"
    /\ CopiesIn(u, tasks') > CopiesIn(u, tasks)

\* C6: once cashedOut or crashed (Crash) or isPlaying false (Mines) is
\* visible, a cashout call creates no
\* invocation, and the ignored call leaves the persisted balance, the local
\* balance, the log and the invocations in flight as they were.
C6_CashoutAfterSettledIsNoop ==
  [][/\ SettledVisible => ~CashoutCreated
     /\ (gh'.noop /\ ~gh.noop) => UNCHANGED <<balance, tokenBalance, log, tasks>>]_vars

\* a cashout call was made on a cashed-out round and ignored
C6_Witness == gh.noop /\ crash.cashedOut

\* C7: a Dice round that started with nothing in flight, met no store
\* failure and was won ends with the persisted balance at
\* balance_before - bet + round(bet x multiplier, 2) and with exactly two
\* records appended.
C7_DiceWonRoundTrip ==
  (/\ game = "dice"
   /\ ~dice.isRolling
   /\ Pending = 0
   /\ faults = 0
   /\ gh.clean
   /\ gh.roundSettled = 1)
    => /\ balance = gh.balBefore - dice.betAmount + Winnings(dice.betAmount, gh.cashMult)
       /\ Len(RoundLog) = 2

\* C8: a Crash round that started with nothing in flight, saw no
\* auto-cash-out and no overlapping cash-out clicks, was settled by one
\* manual cash-out and appended exactly its
\* game_spend and its game_win record ends with the persisted balance at
\* balance_before - bet + round(bet x multiplier at cash-out, 2).
C8_ManualCashoutRoundTrip ==
  (/\ game = "crash"
   /\ crash.cashedOut
   /\ Pending = 0
   /\ gh.clean
   /\ gh.roundSettled = 1
   /\ RoundLog = <<[type |-> "game_spend", amount |-> crash.betAmount, game |-> "crash"],
                   [type |-> "game_win",
                    amount |-> Winnings(crash.betAmount, gh.cashMult) - crash.betAmount,
                    game |-> "crash"]>>)
    => balance = gh.balBefore - crash.betAmount + Winnings(crash.betAmount, gh.cashMult)

\* C9: a Plinko round that started with nothing in flight, met no store
\* failure and was settled by a single frame ends with the persisted balance
\* at balance_before - bet + round(bet x multiplier of the landing bucket, 2).
C9_PlinkoRoundTrip ==
  (/\ game = "plinko"
   /\ plinko.ball = "none"
   /\ Pending = 0
   /\ faults = 0
   /\ gh.clean
   /\ gh.roundSettled = 1)
    => balance = gh.balBefore - plinko.betAmount + Winnings(plinko.betAmount, gh.cashMult)

\* the balance change the records of a log stand for: a game_spend is a
\* decrease, a game_win or a purchase an increase
RECURSIVE LogNet(_)
LogNet(s) ==
  IF s = <<>> THEN 0
  ELSE LogNet(Tail(s))
         + (IF Head(s).type = "game_spend" THEN 0 - Head(s).amount ELSE Head(s).amount)

\* C10: with every round started with nothing in flight, no store failure and
\* nothing pending, the persisted balance has changed by exactly what the
\* appended records stand for (each change has its record of matching type
\* and sign, each record its change).
C10_ChangesMatchRecords ==
  (Pending = 0 /\ faults = 0 /\ gh.clean) => balance = InitBalance + LogNet(log)

\* this step is the balance write of a ledger operation (recordGameTransaction
\* or buyTokens), and the value written is computed from the balance that
\* operation read
WriteFromRead ==
  \E t \in Running :
    /\ t.pc \in {"rgt_write", "buy_write"}
    /\ CopiesIn(t, tasks') < CopiesIn(t, tasks)
    /\ balance' = RoundedBalance(IF t.pc = "rgt_write" THEN NewBalance(t) ELSE t.cur + t.amt)

\* C11: every step that changes the persisted balance is the write of a
\* ledger operation with a value computed from the balance read by that
\* operation, never a value computed from a component's tokenBalance.
C11_WritesComeFromStoreReads == [][balance' # balance => WriteFromRead]_vars

\* C17: the cash-out invocation that an auto-cash-out tick starts pays
\* round(bet x m, 2) for the multiplier m of that tick, the first one at or
\* above the target.
C17_AutoCashoutPaysTickMultiplier ==
  [][\A u \in BagToSet(tasks') :
       (/\ game = "crash"
        /\ crash'.ticks = crash.ticks + 1
        /\ u.kind = "crashCashout"
        /\ CopiesIn(u, tasks') > CopiesIn(u, tasks))
         => /\ crash'.multiplier >= crash.autoCashoutAt
            /\ Winnings(u.bet, u.mult) = Winnings(crash.betAmount, crash'.multiplier)]_vars

\* a cash-out of the round has been requested: its invocation is in flight
\* or has set cashedOut
CashoutRequested ==
  \/ crash.cashedOut
  \/ \E t \in Running : t.kind = "crashCashout" /\ t.round = gh.round

\* this step is a tick of the interval: it raises the multiplier or marks
\* the round crashed
TickStep == crash'.ticks = crash.ticks + 1 \/ (crash'.crashed /\ ~crash.crashed)

\* C18: once a cash-out has been requested no tick changes the round's
\* multiplier or marks the round crashed.
C18_CashoutStopsTicks ==
  [][(game = "crash" /\ CashoutRequested) => ~TickStep]_vars

\* C19: a flying round that has not crashed has its multiplier in
\* [1, crash point), and no cash-out of the round works with a multiplier at
\* or above the crash point.
C19_MultiplierBelowCrashPoint ==
  (game = "crash" /\ crash.isFlying /\ ~crash.crashed)
    => /\ crash.multiplier >= MScale
       /\ crash.multiplier < crash.crashPoint
       /\ \A t \in Running :
            (t.kind = "crashCashout" /\ t.round = gh.round) => t.mult < crash.crashPoint

\* C20: a Dice round that has entered the rolling state (its spend
\* succeeded), with its interval callback as the only invocation in flight,
\* eventually leaves the rolling state.
C20_RollingEnds ==
  (dice.isRolling /\ Pending = 1 /\ gh.calls < MaxCalls) ~> ~dice.isRolling

\* C16: a Plinko settlement pays the bucket that determineFinalBucket
\* sampled when the ball was dropped.
C16_PaidBucketIsTarget ==
  \A t \in Running :
    (t.kind = "plinkoSettle" /\ t.pc \notin {"auth", "restore"}) => t.rc = t.hg

\* C15: a Blackjack round that started with nothing in flight, met no store
\* failure and dealt the player 21 on two cards while the dealer's two cards
\* are not 21 is settled with winnings of 2.5 x bet: a game_win record of
\* 1.5 x bet follows the game_spend and the persisted balance is
\* balance_before - bet + 2.5 x bet.
C15_NaturalPaysThreeToTwo ==
  (/\ game = "blackjack"
   /\ gh.natural
   /\ Pending = 0
   /\ faults = 0
   /\ gh.clean)
    => /\ RoundLog =
            <<[type |-> "game_spend", amount |-> blackjack.betAmount, game |-> "blackjack"],
              [type |-> "game_win",
               amount |-> RoundDiv(blackjack.betAmount * 25, 10) - blackjack.betAmount,
               game |-> "blackjack"]>>
       /\ balance = gh.balBefore - blackjack.betAmount
                      + RoundDiv(blackjack.betAmount * 25, 10)

\* ================================================== claims on all games
\* the invocations of the start handlers, and those that settle a round
StartKinds == {"crashStart", "minesStart", "diceRoll", "plinkoDrop", "bjStart"}

SettleKinds == MinesKinds \cup {"crashCashout", "diceSettle", "plinkoSettle", "bjEnd"}

\* the mounted component shows a round under way
RoundActive ==
  \/ game = "crash" /\ crash.isFlying
  \/ game = "mines" /\ mines.isPlaying
  \/ game = "dice" /\ dice.isRolling
  \/ game = "plinko" /\ (plinko.isDropping \/ plinko.ball # "none")
  \/ game = "blackjack" /\ blackjack.gamePhase # "betting"

\* this step ends a start invocation inside its recordGameTransaction call
SpendFails ==
  \E t \in Running :
    /\ t.kind \in StartKinds
    /\ t.pc \in {"rgt_read", "rgt_insert", "rgt_write"}
    /\ tasks' = Drop(t)

\* C12: when the spend of a round start fails, for an insufficient balance
\* or a failed store request, that step leaves the local token balance as it
\* was, starts no round (a component that showed no round shows none) and
\* generates no outcome: Mines board, Plinko ball, Blackjack hands and the
\* Crash and Dice fields other than isFlying and isRolling are untouched.
C12_FailedSpendStartsNothing ==
  [][SpendFails =>
       /\ tokenBalance' = tokenBalance
       /\ RoundActive' => RoundActive
       /\ crash' = [crash EXCEPT !.isFlying = crash'.isFlying]
       /\ dice' = [dice EXCEPT !.isRolling = dice'.isRolling]
       /\ UNCHANGED <<mines, plinko, blackjack>>]_vars

\* of two Dice starts clicked in a row one has spent and rolls, the other's
\* spend was refused by the store for an insufficient balance
C12_Witness ==
  /\ game = "dice"
  /\ gh.round = 2
  /\ faults = 0
  /\ Len(log) = 1
  /\ BagCardinality(tasks) = 1
  /\ \A t \in Running : t.kind = "diceSettle"
  /\ tokenBalance = InitBalance - dice.betAmount

\* the start request of the mounted game fails its validation
StartInvalid ==
  \/ user = "none"
  \/ game = "crash" /\ (crash.betAmount <= 0 \/ crash.betAmount > tokenBalance)
  \/ game = "mines" /\ (mines.betAmount < 0 \/ mines.betAmount > tokenBalance
                            \/ mines.mineCount + mines.gemCount > GRID_SIZE * GRID_SIZE)
  \/ game = "dice" /\ (dice.betAmount <= 0 \/ dice.betAmount > tokenBalance)
  \/ game = "plinko" /\ (plinko.betAmount <= 0 \/ plinko.betAmount > tokenBalance)
  \/ game = "blackjack" /\ (blackjack.betAmount <= 0 \/ blackjack.betAmount > tokenBalance)

\* this step creates a start invocation
StartCreated ==
  \E u \in BagToSet(tasks') :
    /\ u.kind \in StartKinds
    /\ tasks' = Put(u)

\* C13: while the start request fails validation (bet <= 0, or < 0 in Mines;
\* bet above the local balance; more than 25 mines and gems; no signed-in
\* user) no start invocation is created, hence no ledger call made, and the
\* step of a turned-away request leaves round state, local balance,
\* persisted balance, log and invocations in flight as they were.
C13_InvalidStartChangesNothing ==
  [][/\ StartInvalid => ~StartCreated
     /\ (gh'.rejected /\ ~gh.rejected)
          => UNCHANGED <<balance, log, cachedBalance, tokenBalance, tasks, faults, comps>>]_vars

\* a start request without a signed-in user has returned
C13_Witness ==
  /\ user = "none"
  /\ gh.rejected
  /\ tasks = EmptyBag
  /\ log = <<>>

\* this step shows a round's outcome: the flight with its crash point, the
\* board, the rolling dice, the ball on its path, the dealt hands
OutcomeGenerated ==
  \/ game = "crash" /\ ~crash.isFlying /\ crash'.isFlying
  \/ game = "mines" /\ ~mines.isPlaying /\ mines'.isPlaying
  \/ game = "dice" /\ ~dice.isRolling /\ dice'.isRolling
  \/ game = "plinko" /\ plinko.ball = "none" /\ plinko'.ball # "none"
  \/ game = "blackjack" /\ blackjack.playerHand = <<>> /\ blackjack'.playerHand # <<>>

\* this step is taken by a start invocation whose recordGameTransaction call
\* has returned, with its game_spend record in the log
SpendCompleted ==
  \E t \in Running :
    /\ t.kind \in StartKinds
    /\ t.game = game
    /\ t.pc = "rgt_ret"
    /\ CopiesIn(t, tasks') < CopiesIn(t, tasks)
    /\ t.ins = 1
    /\ \E i \in 1..Len(log) : log[i] = TxRecord(t)

\* this step appends a game_win record
WinAppended == Len(log') > Len(log) /\ log'[Len(log')].type = "game_win"

\* the record is appended by a settling invocation, which holds the round's
\* terminal outcome, after a game_spend of the same game
CreditAfterOutcome ==
  /\ \E t \in Running :
       /\ t.kind \in SettleKinds
       /\ t.pc = "rgt_insert"
       /\ log' = Append(log, TxRecord(t))
  /\ \E j \in 1..Len(log) :
       log[j].type = "game_spend" /\ log[j].game = log'[Len(log')].game

\* C14: in every round with a bet above zero the outcome (crash point,
\* board, dice roll, deal, Plinko ball) is generated by a step of a start
\* invocation whose spend call has returned successfully, and a game_win
\* record is appended only by an invocation created at the round's terminal
\* outcome, after the game_spend record. A Mines practice round (bet 0)
\* makes no ledger call.
C14_SpendThenOutcomeThenCredit ==
  [][/\ (OutcomeGenerated /\ ~(game = "mines" /\ mines.betAmount = 0)) => SpendCompleted
     /\ WinAppended => CreditAfterOutcome]_vars

\* a Dice round went through spend, roll and credit
C14_Witness ==
  /\ game = "dice"
  /\ gh.roundSettled = 1
  /\ Len(log) = 2
  /\ log[1].type = "game_spend"
  /\ log[2].type = "game_win"

\* this step raises the local balance out of a settlement
LocalWin ==
  /\ tokenBalance' > tokenBalance
  /\ \E t \in Running : t.kind \in SettleKinds /\ t.pc # "restore" /\ tasks' # tasks
                          /\ CopiesIn(t, tasks') < CopiesIn(t, tasks)

\* this step sets lastWin of the mounted game to a win
LastWinSet ==
  \/ game = "crash" /\ crash'.lastWin > 0 /\ crash'.lastWin # crash.lastWin
  \/ game = "mines" /\ mines'.lastWin > 0 /\ mines'.lastWin # mines.lastWin
  \/ game = "dice" /\ dice'.lastWin > 0 /\ dice'.lastWin # dice.lastWin
  \/ game = "plinko" /\ plinko'.lastWin > 0 /\ plinko'.lastWin # plinko.lastWin
  \/ game = "blackjack" /\ blackjack'.lastWin > 0 /\ blackjack'.lastWin # blackjack.lastWin

\* the step's invocation calls recordGameTransaction(profit, true) in this
\* step, or (Plinko) returns from updateTokenBalance(tokenBalance + winnings)
CreditAttempted ==
  \/ \E u \in BagToSet(tasks') :
       /\ u.kind \in SettleKinds
       /\ u.isWin
       /\ u.pc = "rgt_read"
       /\ CopiesIn(u, tasks') > CopiesIn(u, tasks)
  \/ \E t \in Running :
       /\ t.kind = "plinkoSettle"
       /\ t.pc = "upd"
       /\ CopiesIn(t, tasks') < CopiesIn(t, tasks)
       /\ balance' = RoundedBalance(t.arg)

\* the step's invocation has returned from its credit: from
\* recordGameTransaction(profit, true) with its game_win record logged, or
\* (Plinko) from updateTokenBalance
CreditReturned ==
  \E t \in Running :
    /\ t.kind \in SettleKinds
    /\ CopiesIn(t, tasks') < CopiesIn(t, tasks)
    /\ \/ t.pc = "rgt_ret" /\ t.isWin /\ \E i \in 1..Len(log) : log[i] = TxRecord(t)
       \/ t.kind = "plinkoSettle" /\ t.pc = "upd" /\ balance' = RoundedBalance(t.arg)

\* C21: in every game the local balance is raised by winnings only in a step
\* that also issues the round's credit (or, in Plinko, that returns from the
\* balance write), and lastWin is set to a win only by an invocation that has
\* returned from its credit.
C21_WinShownAfterCreditAttempt ==
  [][/\ LocalWin => CreditAttempted
     /\ LastWinSet => CreditReturned]_vars

\* a Crash cash-out has raised the local balance and its credit is in flight
C21_Witness ==
  /\ game = "crash"
  /\ tokenBalance > InitBalance - crash.betAmount
  /\ \E t \in Running : t.kind = "crashCashout" /\ t.pc = "rgt_read" /\ t.isWin

\* C22: a Mines component with betAmount = 0 (practice) makes no ledger call
\* at start or on any settlement path: the persisted balance, the local
\* balance and the log stay as they were and no invocation is inside
\* recordGameTransaction or about to call updateTokenBalance.
C22_PracticeTouchesNoLedger ==
  (game = "mines" /\ mines.betAmount = 0)
    => /\ balance = InitBalance
       /\ tokenBalance = InitBalance
       /\ log = <<>>
       /\ cachedBalance = NoCache
       /\ \A t \in Running :
            /\ t.kind \in MinesKinds => t.pc = "auth"
            /\ t.kind = "minesStart" => t.pc = "rgt_ret"

\* a practice round was settled by the auto cash-out of a gem reveal
C22_Witness ==
  /\ game = "mines"
  /\ mines.betAmount = 0
  /\ mines.autoMode
  /\ gh.roundSettled = 1
  /\ ~mines.isPlaying
  /\ mines.revealedCount > 0

\* the auto-reveal effect of the round's only start has called revealAllGems
AutoRevealRunning ==
  /\ game = "mines"
  /\ mines.isPlaying
  /\ mines.mineCount <= AUTO_REVEAL_THRESHOLD
  /\ gh.round = 1
  /\ BagCardinality(tasks) = 1
  /\ \E t \in Running : t.kind = "minesRevealAll"

\* the round has ended with every gem revealed and one settlement at
\* calculateMultiplier(gemCount, mineCount, gemCount)
AutoRevealSettled ==
  LET m == calculateMultiplier(mines.gemCount, mines.mineCount, mines.gemCount) IN
  /\ ~mines.isPlaying
  /\ mines.revealedCount = mines.gemCount
  /\ mines.currentMultiplier = m
  /\ mines.lastWin = Winnings(mines.betAmount, m) - mines.betAmount
  /\ gh.roundSettled = 1

\* C23: a Mines round started with mineCount <= 2 and left without any user
\* action eventually ends (isPlaying false) with every gem revealed, settled
\* exactly once with winnings round(bet x calculateMultiplier(gemCount,
\* mineCount, gemCount), 2).
C23_AutoRevealSettles == AutoRevealRunning ~> AutoRevealSettled

MultiplierInputs ==
  {<<k, m, g>> : k \in 0..(GRID_SIZE * GRID_SIZE - 1), m \in {MIN_MINES, 10, MAX_MINES},
                 g \in MIN_GEMS..MAX_GEMS}

\* "const HOUSE_EDGE = 0.99" (part_005 43), in hundredths
HOUSE_EDGE == 99

\* the draw h = Math.floor(Math.random() * e), e = 2 ** 32, is taken at the
\* multiples of e / DrawSteps: h = p x e / DrawSteps for p in 0..DrawSteps - 1,
\* so that (100 * e - h) / (e - h) = (100 * DrawSteps - p) / (DrawSteps - p)
DrawSteps == 1024

CrashDraws == 0..(DrawSteps - 1)

\* with (e - h) / (e - h) for the quotient of line 54
calculateCrashPoint_NoHundredfold(p) ==
  LET q == ((DrawSteps - p) * MScale) \div (DrawSteps - p)
      m == Max(MScale, q)
  IN IF p = 0 THEN MScale
     ELSE (m \div 100) * HOUSE_EDGE + ((m % 100) * HOUSE_EDGE) \div 100

calculateCrashPoint_EdgeAtZero(p) ==
  LET q == ((100 * DrawSteps - p) * MScale) \div (DrawSteps - p)
      m == Max(MScale, q)
  IN (m \div 100) * HOUSE_EDGE + ((m % 100) * HOUSE_EDGE) \div 100

\* calculateCrashPoint (part_005 50-55) at the draw h = p x e / DrawSteps,
\* in 1/10000 (rounded down)
calculateCrashPoint(p) ==
  LET q == ((100 * DrawSteps - p) * MScale) \div (DrawSteps - p)
      m == Max(MScale, q)
  IN IF p = 0 THEN MScale
     ELSE (m \div 100) * HOUSE_EDGE + ((m % 100) * HOUSE_EDGE) \div 100

\* the hands calculateScore is applied to: up to MaxHand cards of these values
ScoreValues == {"A", "5", "9", "K"}

ScoreHands == UNION {[1..n -> ScoreValues] : n \in 0..MaxHand}

\* MULTIPLIERS (PlinkoGame.tsx 46-50), in tenths
MULTIPLIERS ==
  [Low |-> <<56, 23, 16, 14, 13, 11, 10, 5, 3, 5, 10, 11, 13, 14, 16, 23, 56>>,
   Medium |-> <<112, 34, 21, 16, 13, 11, 9, 4, 2, 4, 9, 11, 13, 16, 21, 34, 112>>,
   High |-> <<224, 45, 26, 18, 13, 10, 7, 3, 1, 3, 7, 10, 13, 18, 26, 45, 224>>]

\* RISK_DISTRIBUTIONS (PlinkoGame.tsx 52-83): <<range[0], range[1], multiplier>>,
\* the range in hundredths, the multiplier in tenths
RISK_DISTRIBUTIONS ==
  [Low |-> << <<0, 5, 56>>, <<5, 15, 23>>, <<15, 30, 16>>, <<30, 45, 14>>,
              <<45, 60, 13>>, <<60, 75, 11>>, <<75, 90, 10>>, <<90, 100, 5>> >>,
   Medium |-> << <<0, 3, 112>>, <<3, 10, 34>>, <<10, 25, 21>>, <<25, 40, 16>>,
                 <<40, 60, 13>>, <<60, 80, 11>>, <<80, 95, 9>>, <<95, 100, 4>> >>,
   High |-> << <<0, 2, 224>>, <<2, 7, 45>>, <<7, 20, 26>>, <<20, 35, 18>>,
               <<35, 55, 13>>, <<55, 75, 10>>, <<75, 90, 7>>, <<90, 100, 3>> >>]

Risks == {"Low", "Medium", "High"}

\* the draws Math.random() is taken at: every hundredth of [0, 1)
BucketDraws == 0..99

\* Array.prototype.indexOf: the first 0-based index of x, or -1
IndexOf(seq, x) ==
  IF \E i \in 1..Len(seq) : seq[i] = x
    THEN (CHOOSE i \in 1..Len(seq) : seq[i] = x /\ \A j \in 1..(i - 1) : seq[j] # x) - 1
    ELSE 0 - 1

\* the entries of the tier whose range holds the draw
Holding(risk, random) ==
  {i \in 1..Len(RISK_DISTRIBUTIONS[risk]) :
      random >= RISK_DISTRIBUTIONS[risk][i][1] /\ random < RISK_DISTRIBUTIONS[risk][i][2]}

determineFinalBucket_OneBased(risk, random) ==
  IF Holding(risk, random) # {}
    THEN LET i == CHOOSE k \in Holding(risk, random) : \A j \in Holding(risk, random) : k <= j
         IN IndexOf(MULTIPLIERS[risk], RISK_DISTRIBUTIONS[risk][i][3]) + 1
    ELSE Len(MULTIPLIERS[risk]) \div 2

\* determineFinalBucket (PlinkoGame.tsx 85-96) at the draw random
determineFinalBucket(risk, random) ==
  IF Holding(risk, random) # {}
    THEN LET i == CHOOSE k \in Holding(risk, random) : \A j \in Holding(risk, random) : k <= j
         IN IndexOf(MULTIPLIERS[risk], RISK_DISTRIBUTIONS[risk][i][3])
    ELSE Len(MULTIPLIERS[risk]) \div 2

CallOf(f, a) == [fn |-> f, args |-> a, out |-> <<>>]

ApplyCalculateMultiplier ==
  /\ call.fn = "calculateMultiplier"
  /\ call.out = <<>>
  /\ call' = [call EXCEPT !.out = <<calculateMultiplier(call.args[1], call.args[2], call.args[3])>>]
  /\ UNCHANGED <<balance, log, cachedBalance, tokenBalance, tasks, faults, game, user, blackjack,
                 crash, mines, dice, plinko, gh>>

ApplyCalculateCrashPoint ==
  /\ call.fn = "calculateCrashPoint"
  /\ call.out = <<>>
  /\ call' = [call EXCEPT !.out = <<calculateCrashPoint(call.args[1])>>]
  /\ UNCHANGED <<balance, log, cachedBalance, tokenBalance, tasks, faults, game, user, blackjack,
                 crash, mines, dice, plinko, gh>>

ApplyCalculateScore ==
  /\ call.fn = "calculateScore"
  /\ call.out = <<>>
  /\ call' = [call EXCEPT !.out = <<calculateScore(call.args[1])>>]
  /\ UNCHANGED <<balance, log, cachedBalance, tokenBalance, tasks, faults, game, user, blackjack,
                 crash, mines, dice, plinko, gh>>

ApplyDetermineFinalBucket ==
  /\ call.fn = "determineFinalBucket"
  /\ call.out = <<>>
  /\ call' = [call EXCEPT !.out = <<determineFinalBucket(call.args[1], call.args[2])>>]
  /\ UNCHANGED <<balance, log, cachedBalance, tokenBalance, tasks, faults, game, user, blackjack,
                 crash, mines, dice, plinko, gh>>

InitFunctions ==
  /\ balance = InitBalance
  /\ log = <<>>
  /\ cachedBalance = NoCache
  /\ tokenBalance = InitBalance
  /\ tasks = EmptyBag
  /\ faults = 0
  /\ game = "none"
  /\ user = "u1"
  /\ blackjack = BlackjackInit
  /\ crash = CrashInit
  /\ mines = MinesInit
  /\ dice = DiceInit
  /\ plinko = PlinkoInit
  /\ gh = GhInit
  /\ call \in {CallOf("calculateMultiplier", a) : a \in MultiplierInputs}
            \cup {CallOf("calculateCrashPoint", <<p>>) : p \in CrashDraws}
            \cup {CallOf("calculateScore", <<h>>) : h \in ScoreHands}
            \cup {CallOf("determineFinalBucket", <<k, r>>) : k \in Risks, r \in BucketDraws}

NextFunctions ==
  \/ ApplyCalculateMultiplier
  \/ ApplyCalculateCrashPoint
  \/ ApplyCalculateScore
  \/ ApplyDetermineFinalBucket

SpecFunctions == InitFunctions /\ [][NextFunctions]_vars

\* n / d rounded to the nearest integer, a half upwards
Rounded(n, d) == (2 * n + d) \div (2 * d)

\* C25: calculateMultiplier(k, mines, gemCount) is 0.99 x (25 - k) / gemCount
\* rounded to 2 decimals, whatever the mines argument.
C25_MultiplierIsRoundedQuotient ==
  (call.fn = "calculateMultiplier" /\ call.out # <<>>) =>
     call.out[1] = Rounded(99 * (GRID_SIZE * GRID_SIZE - call.args[1]), call.args[3]) * 100

\* C26: calculateCrashPoint returns exactly 1.00 when the integer draw is 0;
\* the house-edge factor is not applied to it.
C26_ZeroDrawGivesOne ==
  (call.fn = "calculateCrashPoint" /\ call.out # <<>> /\ call.args[1] = 0) =>
     call.out[1] = MScale

\* calculateCrashPoint has returned for the draw 0
C26_Witness ==
  /\ call.fn = "calculateCrashPoint"
  /\ call.args = <<0>>
  /\ call.out = <<MScale>>

\* the spend t has read the store and gone on to its insert
SpendAccepted(t) ==
  CopiesIn([t EXCEPT !.cur = balance, !.pc = "rgt_insert"], tasks')
    > CopiesIn([t EXCEPT !.cur = balance, !.pc = "rgt_insert"], tasks)

\* the spend t has read the store and thrown 'Insufficient token balance'
SpendRejected(t) ==
  CopiesIn([t EXCEPT !.cur = balance, !.pc = "failed", !.err = "Insufficient token balance"], tasks')
    > CopiesIn([t EXCEPT !.cur = balance, !.pc = "failed", !.err = "Insufficient token balance"], tasks)

\* C27: a spend is accepted exactly when its amount is within the balance it
\* reads from the store, and it writes that balance less the amount, whatever
\* the module cache holds and however old it is.
C27_SpendDecidedByStoreRead ==
  [][\A t \in Running :
       (~t.isWin /\ faults' = faults /\ CopiesIn(t, tasks') < CopiesIn(t, tasks)) =>
          /\ t.pc = "rgt_read" =>
                IF t.amt <= balance THEN SpendAccepted(t) ELSE SpendRejected(t)
          /\ t.pc = "rgt_write" => balance' = RoundedBalance(t.cur - t.amt)]_vars

\* a spend is at its insert, accepted against the stored balance, while the
\* fresh cache holds less than its amount
C27_Witness ==
  /\ cachedBalance = Cache(3000)
  /\ \E t \in Running : /\ ~t.isWin
                         /\ t.pc = "rgt_insert"
                         /\ t.cur = balance
                         /\ t.amt > cachedBalance.value

\* C28: a buyTokens call whose external purchase and record insert went
\* through appends one purchase record of 10 x solAmount and sets the stored
\* balance to the balance it read plus that amount; a call whose purchase
\* failed or was rejected appends nothing and does not raise the balance.
C28_PurchaseCreditsBalance ==
  [][\A t \in Running :
       (t.kind = "buy" /\ CopiesIn(t, tasks') < CopiesIn(t, tasks)) =>
          /\ t.pc = "buy_insert" =>
                (log' = log \/ log' = Append(log, [type |-> "purchase", amount |-> t.amt,
                                                   game |-> "none"]))
          /\ t.pc = "buy_write" =>
                (log' = log /\ balance' = t.cur + t.amt)
          /\ (t.pc = "buy_pay" \/ (t.pc = "buy_restore" /\ t.ins = 0)) =>
                (log' = log /\ balance' <= Max(balance, t.cur))]_vars

\* the totals of a hand with j of its aces counted as 1, the others as 11
AceTotals(hand) == {HandValue(hand) - 10 * j : j \in 0..AceCount(hand)}

\* the highest of them within 21, or the total with every ace counted as 1
BestTotal(hand) ==
  IF \E x \in AceTotals(hand) : x <= 21
    THEN CHOOSE x \in AceTotals(hand) : x <= 21 /\ \A y \in AceTotals(hand) : y <= 21 => y <= x
    ELSE HandValue(hand) - 10 * AceCount(hand)

\* C29: calculateScore returns the highest total within 21 that counting each
\* ace as 11 or 1 allows, or the total with every ace as 1 when none is
\* within 21; aces are counted down one at a time, each at most once, and
\* only from a total above 21.
C29_ScoreIsBestAceTotal ==
  (call.fn = "calculateScore" /\ call.out # <<>>) =>
     LET hand == call.args[1]
         score == call.out[1]
         down == (HandValue(hand) - score) \div 10
     IN /\ score = BestTotal(hand)
        /\ HandValue(hand) - score = 10 * down
        /\ down \in 0..AceCount(hand)
        /\ down > 0 => score + 10 > 21

\* two aces and a king: both aces are counted down, 32 to 12
C29_Witness ==
  /\ call.fn = "calculateScore"
  /\ call.args = <<(<<"A", "A", "K">>)>>
  /\ call.out = <<12>>

\* the cards of the round: both hands and what is left of the deck
RoundCards == blackjack.playerHand \o blackjack.dealerHand \o blackjack.deck

\* no card is in two places (the decks dealt from hold each value once)
NoCardTwice ==
  \A i, j \in 1..Len(RoundCards) : RoundCards[i] = RoundCards[j] => i = j

\* every card of the dealer's hand came to a hand that scored below 17
DrawnBelow17 ==
  \A i \in 1..Len(blackjack.dealerHand) :
     calculateScore(SubSeq(blackjack.dealerHand, 1, i - 1)) < 17

\* handleDealerTurn has run: the round is complete and the player not bust
DealerTurnDone == blackjack.gamePhase = "complete" /\ blackjack.playerScore <= 21

\* C30: when handleDealerTurn has finished the dealer's score is at least 17,
\* every card the dealer drew was drawn at a score below 17, and every card
\* drawn left the deck, so that no card of the round is dealt twice.
C30_DealerTurnDrawsFromDeck ==
  /\ DealerTurnDone => blackjack.dealerScore >= 17
  /\ DrawnBelow17
  /\ NoCardTwice

\* the outcome of a round with these hands, decided in the stated order
DecidedInOrder(playerHand, dealerHand) ==
  LET p == calculateScore(playerHand)
      d == calculateScore(dealerHand)
      pTwo == p = 21 /\ Len(playerHand) = 2
      dTwo == d = 21 /\ Len(dealerHand) = 2
  IN IF p > 21 THEN FALSE
     ELSE IF d > 21 THEN TRUE
     ELSE IF pTwo /\ ~dTwo THEN TRUE
     ELSE IF ~pTwo /\ dTwo THEN FALSE
     ELSE p > d

\* C31: the round's outcome follows from its hands in this order: player
\* bust loses, else dealer bust wins, else a two-card 21 beats a hand without
\* one, else the higher score wins; a bust on hit and a tie are not credited.
C31_OutcomeDecidedInOrder ==
  [][\A u \in BagToSet(tasks') :
       (u.kind = "bjEnd" /\ u.pc = "auth" /\ CopiesIn(u, tasks') > CopiesIn(u, tasks)) =>
          u.isWin = DecidedInOrder(blackjack'.playerHand, blackjack'.dealerHand)]_vars

\* this step is a revealTile on a mine: the round ends and the cells are shown
MineRevealed == mines.isPlaying /\ ~mines'.isPlaying /\ mines.hiddenMines > 0 /\ mines'.hiddenMines = 0
                  /\ tasks' = tasks

\* this step is a revealTile on a cell that is neither mine nor gem
EmptyRevealed == mines.isPlaying /\ mines'.hiddenEmpty = mines.hiddenEmpty - 1 /\ tasks' = tasks

\* C32: for mineCount + gemCount <= 25 initializeGame returns, under fair
\* sampling, disjoint sets of mineCount and gemCount cells of the 25; a
\* revealed mine ends the round with no credit, and a revealed cell that is
\* neither mine nor gem leaves revealedCount and the multiplier as they were.
C32_PlacementAndOtherCells ==
  /\ (call.fn = "initializeGame") ~> (call.fn = "initializeGame" /\ call.pc = "done")
  /\ []((call.fn = "initializeGame" /\ call.pc = "done") =>
          /\ call.out = <<call.args[1], call.args[2], 0>>
          /\ call.args[1] + call.args[2] <= GRID_SIZE * GRID_SIZE)
  /\ [][/\ MineRevealed => (/\ balance' = balance
                            /\ log' = log
                            /\ tokenBalance' = tokenBalance
                            /\ mines'.lastWin = 0)
        /\ EmptyRevealed => (/\ mines'.revealedCount = mines.revealedCount
                             /\ mines'.currentMultiplier = mines.currentMultiplier
                             /\ mines'.isPlaying)]_vars

\* initializeGame has returned 24 mines and 1 gem, all 25 cells in use
C32_Witness ==
  /\ call.fn = "initializeGame"
  /\ call.pc = "done"
  /\ call.out = <<24, 1, 0>>

\* the tier's ranges follow one another from 0 to 1 without gap or overlap
Contiguous(risk) ==
  LET d == RISK_DISTRIBUTIONS[risk]
  IN /\ d[1][1] = 0
     /\ d[Len(d)][2] = 100
     /\ \A i \in 1..(Len(d) - 1) : d[i][2] = d[i + 1][1]
     /\ \A i \in 1..Len(d) : d[i][1] < d[i][2]

\* the tier's table reads the same from both ends
Symmetric(risk) ==
  \A i \in 1..Len(MULTIPLIERS[risk]) :
     MULTIPLIERS[risk][i] = MULTIPLIERS[risk][Len(MULTIPLIERS[risk]) + 1 - i]

\* C33: for every tier and draw, determineFinalBucket returns a bucket in
\* 0..16 whose table multiplier is that of the one range holding the draw;
\* the ranges are contiguous over [0, 1), and each table has 17 entries
\* symmetric around index 8.
C33_BucketOfTheDrawnRange ==
  (call.fn = "determineFinalBucket" /\ call.out # <<>>) =>
     LET risk == call.args[1]
         random == call.args[2]
         bucket == call.out[1]
     IN /\ bucket \in 0..16
        /\ \E i \in Holding(risk, random) :
              /\ Holding(risk, random) = {i}
              /\ MULTIPLIERS[risk][bucket + 1] = RISK_DISTRIBUTIONS[risk][i][3]
        /\ Contiguous(risk)
        /\ Len(MULTIPLIERS[risk]) = 17
        /\ Symmetric(risk)

\* the Medium tier at the draw 0.50: the range [0.40, 0.60) of 1.3, bucket 4
C33_Witness ==
  /\ call.fn = "determineFinalBucket"
  /\ call.args = <<"Medium", 50>>
  /\ call.out = <<4>>

\* this step is the successful last write of recordGameTransaction,
\* updateTokenBalance or buyTokens
LedgerCallSucceeds ==
  \E t \in Running :
     /\ CopiesIn(t, tasks') < CopiesIn(t, tasks)
     /\ faults' = faults
     /\ \/ t.pc = "rgt_write"
        \/ t.kind = "update" /\ t.pc = "upd"
        \/ t.pc = "buy_write"

\* C34: getTokenBalance returns the cached value, reading nothing, exactly
\* when a cache entry exists and is younger than CACHE_DURATION; otherwise its
\* result is read from the store and replaces the cache entry. After a
\* successful recordGameTransaction, updateTokenBalance or buyTokens the
\* cached value is the balance that call persisted.
C34_CacheServesAndFollowsStore ==
  [][/\ \A u \in BagToSet(tasks') :
          (u.kind = "gtb" /\ CopiesIn(u, tasks') > CopiesIn(u, tasks)) =>
             /\ (u.pc = "done" /\ u.rc = 0) <=>
                   (cachedBalance.valid /\ cachedBalance.fresh /\ gh'.calls > gh.calls)
             /\ (u.pc = "done" /\ u.rc = 0) =>
                   (u.arg = cachedBalance.value /\ cachedBalance' = cachedBalance)
             /\ (u.pc = "done" /\ u.rc > 0) =>
                   (u.arg = balance /\ cachedBalance' = Cache(balance) /\ u.rc = 1)
     /\ LedgerCallSucceeds => cachedBalance' = Cache(balance')]_vars

\* ---------------------------------------------------------------------------
\* retry (part_000 11-28) and the signing it wraps in purchaseTokens
\* (part_000 101-103; phantom.ts 110-184)
\* ---------------------------------------------------------------------------

\* default maxAttempts of retry (part_000 7)
MAX_RETRIES == 3

\* signing attempts of one signAndSendTransaction call (phantom.ts 21)
SIGN_MAX_RETRIES == 2

\* values of maxAttempts applied; purchaseTokens always uses the default
AttemptLimits == 0..MAX_RETRIES

\* what one attempt's operation does: resolve, reject with an error that has
\* no code 4001, or reject with the wallet's user rejection
Outcomes == {"ok", "error", "4001"}

\* retry(operation, maxAttempts) entered: attempt = 1, nothing invoked yet
RetryCall(op, maxAttempts) ==
  [fn |-> "retry", args |-> <<op, maxAttempts>>, out |-> <<>>, pc |-> "loop",
   attempt |-> 1, hist |-> <<>>, attempts |-> 0, signs |-> 0, rejections |-> 0]

\* the catch block's decision to rethrow without the code test of line 20
Rethrows_LastAttemptOnly(o, attempt, maxAttempts) == attempt = maxAttempts

\* the catch block rethrows (part_000 20-21)
Rethrows(o, attempt, maxAttempts) == o = "4001" \/ attempt = maxAttempts

\* the try / catch around one attempt whose operation ended with outcome o
\* (part_000 16-22)
Settled(c, o) ==
  LET h == Append(c.hist, o) IN
  IF o = "ok"
    THEN [c EXCEPT !.hist = h, !.pc = "done", !.out = <<"return", c.attempt>>]
    ELSE IF Rethrows(o, c.attempt, c.args[2])
           THEN [c EXCEPT !.hist = h, !.pc = "done", !.out = <<"throw", c.attempt>>]
           ELSE [c EXCEPT !.hist = h, !.pc = "delay"]

\* one pass of the for loop with an operation that settles by itself
\* (part_000 15-17)
RetryAttempt(o) ==
  /\ call.fn = "retry"
  /\ call.pc = "loop"
  /\ call.args[1] = "operation"
  /\ call.attempt <= call.args[2]
  /\ call' = Settled(call, o)
  /\ UNCHANGED <<balance, log, cachedBalance, tokenBalance, tasks, faults, game, user, blackjack,
                 crash, mines, dice, plinko, gh>>

\* one pass of the for loop entering signAndSendTransaction: attempts = 0
\* (part_000 101-103; phantom.ts 110-128)
RetrySignEnter ==
  /\ call.fn = "retry"
  /\ call.pc = "loop"
  /\ call.args[1] = "signAndSendTransaction"
  /\ call.attempt <= call.args[2]
  /\ call' = [call EXCEPT !.pc = "sign", !.attempts = 0]
  /\ UNCHANGED <<balance, log, cachedBalance, tokenBalance, tasks, faults, game, user, blackjack,
                 crash, mines, dice, plinko, gh>>

\* provider.signTransaction(transaction) is invoked and the wallet signs,
\* the user rejects (code 4001), or the request fails or times out. Both
\* errors leave signAndSendTransaction as a new Error, which has no code
\* (phantom.ts 130-183)
SignTransaction(w) ==
  /\ call.fn = "retry"
  /\ call.pc = "sign"
  /\ call.attempts < SIGN_MAX_RETRIES
  /\ LET c == [call EXCEPT !.signs = call.signs + 1,
                           !.attempts = IF w = "signed" THEN call.attempts ELSE call.attempts + 1,
                           !.rejections = IF w = "rejected" THEN call.rejections + 1
                                                            ELSE call.rejections]
     IN  call' = CASE w = "signed" -> Settled(c, "ok")
                   [] w = "rejected" -> Settled(c, "error")
                   [] OTHER -> IF c.attempts = SIGN_MAX_RETRIES
                                 THEN Settled(c, "error")
                                 ELSE [c EXCEPT !.pc = "signDelay"]
  /\ UNCHANGED <<balance, log, cachedBalance, tokenBalance, tasks, faults, game, user, blackjack,
                 crash, mines, dice, plinko, gh>>

\* the CONNECTION_RETRY_DELAY timer between two signing attempts (phantom.ts 162)
SignDelay ==
  /\ call.fn = "retry"
  /\ call.pc = "signDelay"
  /\ call' = [call EXCEPT !.pc = "sign"]
  /\ UNCHANGED <<balance, log, cachedBalance, tokenBalance, tasks, faults, game, user, blackjack,
                 crash, mines, dice, plinko, gh>>

\* the delay * attempt timer, then attempt++ (part_000 15, 24)
RetryDelay ==
  /\ call.fn = "retry"
  /\ call.pc = "delay"
  /\ call' = [call EXCEPT !.pc = "loop", !.attempt = call.attempt + 1]
  /\ UNCHANGED <<balance, log, cachedBalance, tokenBalance, tasks, faults, game, user, blackjack,
                 crash, mines, dice, plinko, gh>>

\* the loop condition is false: throw lastError (part_000 15, 27)
RetryExhausted ==
  /\ call.fn = "retry"
  /\ call.pc = "loop"
  /\ call.attempt > call.args[2]
  /\ call' = [call EXCEPT !.pc = "done", !.out = <<"throw", Len(call.hist)>>]
  /\ UNCHANGED <<balance, log, cachedBalance, tokenBalance, tasks, faults, game, user, blackjack,
                 crash, mines, dice, plinko, gh>>

RetryStep ==
  \/ \E o \in Outcomes : RetryAttempt(o)
  \/ RetrySignEnter
  \/ \E w \in {"signed", "rejected", "failed"} : SignTransaction(w)
  \/ SignDelay
  \/ RetryDelay
  \/ RetryExhausted

InitRetry ==
  /\ balance = InitBalance
  /\ log = <<>>
  /\ cachedBalance = NoCache
  /\ tokenBalance = InitBalance
  /\ tasks = EmptyBag
  /\ faults = 0
  /\ game = "none"
  /\ user = "u1"
  /\ blackjack = BlackjackInit
  /\ crash = CrashInit
  /\ mines = MinesInit
  /\ dice = DiceInit
  /\ plinko = PlinkoInit
  /\ gh = GhInit
  /\ call \in {RetryCall("operation", n) : n \in AttemptLimits}
                \cup {RetryCall("signAndSendTransaction", MAX_RETRIES)}

NextRetry ==
  \/ \E o \in Outcomes : RetryAttempt(o)
  \/ RetrySignEnter
  \/ \E w \in {"signed", "rejected", "failed"} : SignTransaction(w)
  \/ SignDelay
  \/ RetryDelay
  \/ RetryExhausted

\* timers fire and promises settle: every step of a started call is taken
SpecRetry == InitRetry /\ [][NextRetry]_vars /\ WF_vars(RetryStep)

\* C35: retry ends; it invokes the operation at most maxAttempts times,
\* returns at the first attempt that succeeds, rethrows at once the error of
\* an attempt that fails with code 4001, and otherwise rethrows the error of
\* attempt maxAttempts.
C35_RetryEndsWithinMaxAttempts ==
  /\ (call.fn = "retry" /\ call.args[1] = "operation") ~> (call.pc = "done")
  /\ [](call.fn = "retry" /\ call.args[1] = "operation" =>
          LET h == call.hist
              n == Len(h)
          IN  /\ n <= call.args[2]
              /\ \A i \in 1..(n - 1) : h[i] = "error"
              /\ call.pc = "done" =>
                    /\ n = 0 => call.args[2] = 0
                    /\ n > 0 => \/ h[n] = "ok" /\ call.out = <<"return", n>>
                                \/ h[n] = "4001" /\ call.out = <<"throw", n>>
                                \/ h[n] = "error" /\ n = call.args[2] /\ call.out = <<"throw", n>>
              /\ (n > 0 /\ h[n] # "error") => call.pc = "done")

\* two failures, then the third attempt's result is returned
C35_Witness ==
  /\ call.fn = "retry"
  /\ call.args = <<"operation", MAX_RETRIES>>
  /\ call.hist = <<"error", "error", "ok">>
  /\ call.out = <<"return", 3>>

\* C36: in one retry(() => signAndSendTransaction(transaction)) the user's
\* rejection ends the signing: once the user has rejected, signTransaction
\* has been invoked exactly once.
C36_RejectionNeverRetried ==
  (call.fn = "retry" /\ call.args[1] = "signAndSendTransaction" /\ call.rejections > 0) =>
     call.signs = 1

\* the interval keeps ticking while the plane flies (part_005 220-243) and
\* every store request of a started handler returns
SpecCrashFair ==
  /\ InitCrash
  /\ [][NextCrash]_vars
  /\ WF_vars(CrashTick)
  /\ WF_vars(\E t \in Running : CrashStep(t) \/ RGTStep(t))

\* C37: after a cash-out has settled a Crash round, isFlying becomes false
\* again, so that startGame is accepted for a next round (flights that the
\* tick bound of the model cuts short are left out).
C37_CashoutReturnsToStart ==
  (crash.cashedOut /\ crash.isFlying) ~> (~crash.isFlying \/ crash.ticks >= MaxTicks)

\* C38: for fixed mineCount and gemCount calculateMultiplier does not decrease
\* from k revealed gems to k + 1: its value at k + 1 is at least its value at k.
C38_MultiplierNeverDecreases ==
  (call.fn = "calculateMultiplier" /\ call.out # <<>> /\ call.args[1] >= 1) =>
     call.out[1] >= calculateMultiplier(call.args[1] - 1, call.args[2], call.args[3])

\* C39: every Crash spend that returns starts a round that was not active:
\* no second startGame gets its spend through for a round that the first
\* start, clicked while its own spend was in flight, has already made active.
C39_OneSpendPerRound ==
  [][\A t \in Running :
       (t.kind = "crashStart" /\ t.pc = "rgt_ret" /\ CopiesIn(t, tasks') < CopiesIn(t, tasks)) =>
          ~crash.isFlying]_vars

\* C40: calculateCrashPoint returns at least 1.00 for every draw, and at least
\* 100 x HOUSE_EDGE = 99 for every draw of 1 or more: no crash point lies
\* strictly between 1.00 and 99.
C40_CrashPointOneOrAtLeast99 ==
  (call.fn = "calculateCrashPoint" /\ call.out # <<>>) =>
     /\ call.out[1] >= MScale
     /\ call.args[1] >= 1 => call.out[1] >= HOUSE_EDGE * MScale
     /\ ~(call.out[1] > MScale /\ call.out[1] < HOUSE_EDGE * MScale)

\* calculateCrashPoint has returned for the smallest draw above 0: 99.0957
C40_Witness ==
  /\ call.fn = "calculateCrashPoint"
  /\ call.args = <<1>>
  /\ call.out = <<990957>>

====
